---- MODULE Spec2Model ----
(***************************************************************************)
(* The timestepped simulation driver of the SNN toolbox' INI simulator     *)
(* (SNN.simulate, SNN.reset, SNN.get_poisson_frame_batch, to_binary) as a  *)
(* state machine.                                                          *)
(*                                                                         *)
(* Real quantities (inputs, stimuli, membrane potentials, raw outputs) are *)
(* held as integers counting units of 1/Den, so that astype('int32') is a  *)
(* genuine truncation.  Tensors are functions over 0-based index ranges,   *)
(* as in the source.                                                       *)
(***************************************************************************)
EXTENDS Integers, Sequences, FiniteSets, TLC

VARIABLES
    config,            \* self.config and the attributes derived from it
    snn,               \* self.snn: the state of the layer units
    input_spikecount,  \* self._input_spikecount, times batch_size
    sim,               \* the frame of the simulate call: kwargs, locals, result
    dvs_gen,           \* kwargs['dvs_gen']: the event source
    hist,              \* history of the current call (what was emitted and run)
    calls,             \* number of simulate calls started on this network
    since_reset        \* ... of them since the network was built or reset

vars == <<config, snn, input_spikecount, sim, dvs_gen, hist, calls,
          since_reset>>

-----------------------------------------------------------------------------
(* Bounds of the model.                                                    *)

MaxTimesteps == 3
MaxTopK == 3
MaxCap == 2
MaxCalls == 2
MaxBits == 4
MaxLayers == 4      \* layers after the input layer of an enumerated model
DeepLayers == 101   \* dense layers of the one deep model

\* The activation dtype is a float of DtypeBits bits.
DtypeBits == 2

RECURSIVE Pow2(_)
Pow2(k) == IF k <= 0 THEN 1 ELSE 2 * Pow2(k - 1)

\* np.finfo(activation_dtype).nmant, the width of the mantissa: that of the
\* IEEE formats of 16, 32 and 64 bits and of the x86 extended format that
\* numpy stores in 96 or 128 bits (longdouble), and for a width below 16,
\* which numpy does not have, that of a float with a sign and one exponent
\* bit.
nmant(bits) ==
    CASE bits = 16 -> 10
      [] bits = 32 -> 23
      [] bits = 64 -> 52
      [] bits = 96 -> 63
      [] bits = 128 -> 63
      [] OTHER -> bits - 2

\* np.finfo(activation_dtype): its bits, and 1 / min(epsneg, eps) with
\* eps = 2^-nmant and epsneg = 2^-(nmant+1), a power of two (2^11 = 2048
\* for float16, 2^24 for float32).
num_bits == DtypeBits
scale_fac == Pow2(nmant(num_bits) + 1)

\* Reals are multiples of the resolution of the activation dtype: one real
\* unit is Den model units.
Den == scale_fac

\* Batch sizes.  count_nonzero / batch_size is exact in binary floating
\* point for powers of two, so the rational count below is the float count.
BatchSizes == {1, 2}

\* np.random.random_sample draws from [0, 1): a draw r stands for r / DrawDen.
DrawDen == 4
Draws == {0, DrawDen - 1}

-----------------------------------------------------------------------------
(* The network the driver runs: InputLayer, SpikeConv2D (one unit per      *)
(* input element), SpikeFlatten, SpikeDense (the output unit).             *)

Layers == <<"InputLayer", "SpikeConv2D", "SpikeFlatten", "SpikeDense">>

\* Weights of the output layer: Weights[l+1][n+1] from input element n to
\* class l.
Weights == << <<1, 0>>, <<1, 1>> >>

num_classes == Len(Weights)
NumInputs == Len(Weights[1])

Classes == 0 .. num_classes - 1
Inputs == 0 .. NumInputs - 1
Batch(cfg) == 0 .. cfg.batch_size - 1
Steps(cfg) == 0 .. cfg.num_timesteps - 1

\* self._dt and self.rescale_fac.
dt == 1
rescale_fac == 1

-----------------------------------------------------------------------------
(* Arithmetic helpers.                                                     *)

Abs(v) == IF v < 0 THEN -v ELSE v
Sign(v) == IF v < 0 THEN -1 ELSE IF v > 0 THEN 1 ELSE 0

RECURSIVE SumOver(_, _)
SumOver(S, f) ==
    IF S = {} THEN 0
    ELSE LET e == CHOOSE e \in S : TRUE IN f[e] + SumOver(S \ {e}, f)

MaxOf(S) == CHOOSE m \in S : \A e \in S : e <= m

\* ndarray.astype('int32') of a real held in units of 1/Den: truncation
\* toward zero.
AsInt32(v) == IF v >= 0 THEN v \div Den ELSE -((-v) \div Den)

\* np.asarray(., bool) of one entry.
AsBool(v) == IF v # 0 THEN 1 ELSE 0

CumSumExclusive(v) == [t \in DOMAIN v |-> SumOver(0 .. t - 1, v)]

\* np.cumsum along the last axis of a vector over 0 .. n-1.
CumSum(v) == [t \in DOMAIN v |-> SumOver(0 .. t, v)]

\* np.count_nonzero of one sample's slice of a (batch, class, time) tensor.
CountNonzero(out_l_t) ==
    SumOver(DOMAIN out_l_t,
            [l \in DOMAIN out_l_t |->
                Cardinality({t \in DOMAIN out_l_t[l] : out_l_t[l][t] # 0})])

Zeros(S1, S2) == [a \in S1 |-> [b \in S2 |-> 0]]

-----------------------------------------------------------------------------
(* The layer units (snntoolbox.simulation.backends.inisim, outside this    *)
(* driver): integrate-and-fire units with reset by subtraction that emit   *)
(* spikes of size v_thresh, signed like the charge that caused them.  A    *)
(* unit integrates, in every forward pass, the charge it receives plus the *)
(* bias of its layer.                                                      *)

HasState(i) == Layers[i] \in {"SpikeConv2D", "SpikeDense"}
Stateful == {i \in 1 .. Len(Layers) : HasState(i)}
UnitsOf(i) == IF Layers[i] = "SpikeDense" THEN Classes ELSE Inputs

\* The membrane potential and clock a unit is built with.
InitMem(cfg, i) == Zeros(Batch(cfg), UnitsOf(i))
InitTime == dt

\* The biases of the parsed model, one per layer with state (the units of a
\* layer share it), in units of 1/Den: none, or one on the output layer
\* that alone carries a unit to a threshold of 1.
NoBias == [i \in Stateful |-> 0]
BiasChoices == {NoBias, [NoBias EXCEPT ![Len(Layers)] = Den]}

\* compile: the network is built from the parsed model, and the bias of
\* every layer that has one is scaled by dt.
compile(cfg, bias) ==
    [mem  |-> [i \in Stateful |-> InitMem(cfg, i)],
     time |-> [i \in Stateful |-> InitTime],
     bias |-> [i \in Stateful |-> bias[i] * dt]]

\* The network built from a model without biases.
InitSnn(cfg) == compile(cfg, NoBias)

Fire(m, z, th) ==
    LET v == m + z
    IN  IF v >= th THEN [mem |-> v - th, spike |-> th]
        ELSE IF v <= -th THEN [mem |-> v + th, spike |-> -th]
        ELSE [mem |-> v, spike |-> 0]

\* layer.reset(sample_idx) of one layer: a unit goes back to the state it was
\* built with and keeps its bias; a layer that holds no state has nothing to
\* reset.
LayerReset(cfg, net, i, sample_idx) ==
    IF HasState(i)
    THEN [net EXCEPT !.mem[i] = InitMem(cfg, i), !.time[i] = InitTime]
    ELSE net

\* self.snn.predict_on_batch(input_b_l): one forward pass through all
\* layers.  Returns the new layer state and the output unit's raw output.
predict_on_batch(cfg, net, stim) ==
    LET conv == [b \in Batch(cfg) |-> [n \in Inputs |->
                    Fire(net.mem[2][b][n], stim[b][n] + net.bias[2],
                         cfg.v_thresh)]]
        charge == [b \in Batch(cfg) |-> [l \in Classes |->
                    SumOver(Inputs, [n \in Inputs |->
                        Weights[l + 1][n + 1] * conv[b][n].spike])]]
        dense == [b \in Batch(cfg) |-> [l \in Classes |->
                    Fire(net.mem[4][b][l], charge[b][l] + net.bias[4],
                         cfg.v_thresh)]]
    IN  [snn |-> [net EXCEPT
                    !.mem[2] = [b \in Batch(cfg) |-> [n \in Inputs |->
                                    conv[b][n].mem]],
                    !.mem[4] = [b \in Batch(cfg) |-> [l \in Classes |->
                                    dense[b][l].mem]]],
         out_spikes |-> [b \in Batch(cfg) |-> [l \in Classes |->
                            dense[b][l].spike]]]

-----------------------------------------------------------------------------
(* SNN.set_time and SNN.reset.                                             *)

\* for layer in self.snn.layers[1:]
AfterInput == 2 .. Len(Layers)

setTimeOfOutputUnit(net, t) ==
    [net EXCEPT !.time[Len(Layers)] = t]

\* SNN.set_time(t): every layer after the first that has a clock gets t.
set_time(net, t) ==
    [net EXCEPT !.time = [i \in Stateful |->
                            IF i \in AfterInput THEN t ELSE net.time[i]]]

RECURSIVE ResetLayers(_, _, _, _)
ResetLayers(cfg, net, todo, sample_idx) ==
    IF todo = {} THEN net
    ELSE LET i == CHOOSE i \in todo : TRUE
         IN  ResetLayers(cfg, LayerReset(cfg, net, i, sample_idx),
                         todo \ {i}, sample_idx)

resetAfterFirstUnit(cfg, net, sample_idx) ==
    ResetLayers(cfg, net, 3 .. Len(Layers), sample_idx)

reset(cfg, net, sample_idx) == ResetLayers(cfg, net, AfterInput, sample_idx)

-----------------------------------------------------------------------------
(* SNN.get_poisson_frame_batch.                                            *)

AllX(cfg, x_b_l) == {x_b_l[b][n] : b \in Batch(cfg), n \in Inputs}

\* self._input_spikecount < self._num_poisson_events_per_sample
\*     or self._num_poisson_events_per_sample < 0
\* with both sides of the first comparison multiplied by batch_size.
PoissonSamplesAtCap(cfg, isc) ==
    \/ isc <= cfg.num_poisson_events_per_sample * cfg.batch_size
    \/ cfg.num_poisson_events_per_sample < 0

PoissonSamplesCapped(cfg, isc) ==
    isc < cfg.num_poisson_events_per_sample * cfg.batch_size

PoissonSamples(cfg, isc) ==
    \/ isc < cfg.num_poisson_events_per_sample * cfg.batch_size
    \/ cfg.num_poisson_events_per_sample < 0

\* (spike_snapshot <= np.abs(x_b_l)).astype('float32'), with
\* spike_snapshot = random_sample * rescale_fac * np.max(x_b_l).
SpikeMask(cfg, x_b_l, r) ==
    LET mx == MaxOf(AllX(cfg, x_b_l))
    IN  [b \in Batch(cfg) |-> [n \in Inputs |->
            IF r[b][n] * rescale_fac * mx <= Abs(x_b_l[b][n]) * DrawDen
            THEN 1 ELSE 0]]

CountMask(cfg, mask) ==
    SumOver(Batch(cfg), [b \in Batch(cfg) |-> SumOver(Inputs, mask[b])])

\* The mask taken as the stimulus: spikes of size 1.
UnitSpikes(cfg, mask, x_b_l) ==
    [b \in Batch(cfg) |-> [n \in Inputs |-> mask[b][n] * Den]]

\* input_b_l *= np.max(x_b_l) * np.sign(x_b_l)
ScaledSpikes(cfg, mask, x_b_l) ==
    LET mx == MaxOf(AllX(cfg, x_b_l))
    IN  [b \in Batch(cfg) |-> [n \in Inputs |->
            mask[b][n] * mx * Sign(x_b_l[b][n])]]

get_poisson_frame_batch(cfg, isc, x_b_l, r) ==
    IF PoissonSamples(cfg, isc)
    THEN LET mask == SpikeMask(cfg, x_b_l, r)
         IN  [input_b_l |-> ScaledSpikes(cfg, mask, x_b_l),
              mask |-> mask,
              input_spikecount |-> isc + CountMask(cfg, mask),
              branch |-> "sample"]
    ELSE [input_b_l |-> Zeros(Batch(cfg), Inputs),
          mask |-> Zeros(Batch(cfg), Inputs),
          input_spikecount |-> isc,
          branch |-> "zeros"]

-----------------------------------------------------------------------------
(* to_binary and the decoding of one step's output.                        *)

PowerLsbFirst(nb, i) == Pow2(i)

\* powers[i] of to_binary, for i in 0 .. num_bits-1.
Power(nb, i) == Pow2(nb - i - 1)

\* The running remainder f of to_binary before bit i is looked at, in units
\* of 1/Den (fD is x[0, l] * scale_fac in these units).
RECURSIVE Remainder(_, _, _)
Remainder(fD, nb, i) ==
    IF i = 0 THEN fD
    ELSE LET f == Remainder(fD, nb, i - 1)
         IN  IF f >= Power(nb, i - 1) * Den THEN f - Power(nb, i - 1) * Den
             ELSE f

\* binary_array[i, l]
to_binary(x, nb, sf) ==
    [i \in 0 .. nb - 1 |-> [l \in DOMAIN x[0] |->
        IF Remainder(x[0][l] * sf, nb, i) >= Power(nb, i) * Den
        THEN 1 ELSE 0]]

\* output_b_l_t[:, :, sim_step_int] = out_spikes.astype('int32')
WriteStep(cfg, out_b_l_t, out_spikes, i) ==
    [b \in Batch(cfg) |-> [l \in Classes |->
        [out_b_l_t[b][l] EXCEPT ![i] = AsInt32(out_spikes[b][l])]]]

\* x = to_binary(...); x *= powers; output_b_l_t[:, :, :] =
\* np.expand_dims(x.transpose(), 0).  The assignment broadcasts along the
\* batch axis and needs the time axis to have num_bits entries.
Broadcastable(cfg) == cfg.num_timesteps = num_bits \/ num_bits = 1

WritePattern(cfg, out_spikes) ==
    LET x == to_binary(out_spikes, num_bits, scale_fac)
    IN  [b \in Batch(cfg) |-> [l \in Classes |-> [t \in Steps(cfg) |->
            LET i == IF num_bits = 1 THEN 0 ELSE t
            IN  x[i][l] * Power(num_bits, i)]]]

AnyReachedTopK(cfg, out_b_l_t) ==
    \E b \in Batch(cfg) : CountNonzero(out_b_l_t[b]) >= cfg.top_k

\* all(np.count_nonzero(output_b_l_t, (1, 2)) >= self.top_k)
AllReachedTopK(cfg, out_b_l_t) ==
    \A b \in Batch(cfg) : CountNonzero(out_b_l_t[b]) >= cfg.top_k

-----------------------------------------------------------------------------
(* The post-processing of simulate (after the loop).                       *)

\* The use_isi_code loop: every entry becomes 1 from the first nonzero entry
\* of its row on.
RunningOrNoCarry(v) == [t \in DOMAIN v |-> AsBool(v[t])]

RunningOr(v) == [t \in DOMAIN v |->
                    IF \E s \in 0 .. t : v[s] # 0 THEN 1 ELSE 0]

Binarize(cfg, out_b_l_t) ==
    [b \in Batch(cfg) |-> [l \in Classes |-> RunningOr(out_b_l_t[b][l])]]

PlainCumSum(cfg, out_b_l_t) ==
    [b \in Batch(cfg) |-> [l \in Classes |-> CumSum(out_b_l_t[b][l])]]

\* np.cumsum(np.asarray(output_b_l_t, bool), 2)
BoolCumSum(cfg, out_b_l_t) ==
    [b \in Batch(cfg) |-> [l \in Classes |->
        CumSum([t \in Steps(cfg) |-> AsBool(out_b_l_t[b][l][t])])]]

\* np.cumsum(output_b_l_t, 2) / scale_fac, a real tensor in units of 1/Den.
ScaledCumSum(cfg, out_b_l_t) ==
    [b \in Batch(cfg) |-> [l \in Classes |->
        LET c == CumSum(out_b_l_t[b][l])
        IN  [t \in Steps(cfg) |-> (c[t] * Den) \div scale_fac]]]

-----------------------------------------------------------------------------
(* SNN.simulate: entry, one loop iteration, and the code after the loop.   *)

NoTensor == <<>>

IdleSim == [pc |-> "idle", err |-> "none", x_b_l |-> NoTensor,
            input_b_l |-> NoTensor, sim_step_int |-> -1, broke |-> FALSE,
            out_spikes |-> NoTensor, output_b_l_t |-> NoTensor,
            result |-> NoTensor, loader |-> "none"]

Raise(s, e) == [s EXCEPT !.pc = "error", !.err = e]

SimulateEntryKeepingCount(cfg, isc, x) ==
    IF cfg.num_timesteps < 0
    THEN [sim |-> Raise([IdleSim EXCEPT !.x_b_l = x], "ValueError"),
          input_spikecount |-> isc]
    ELSE [sim |-> [IdleSim EXCEPT
                     !.pc = "loop",
                     !.x_b_l = x,
                     !.input_b_l = [b \in Batch(cfg) |-> [n \in Inputs |->
                                       x[b][n] * dt]],
                     !.output_b_l_t = [b \in Batch(cfg) |-> [l \in Classes |->
                                          [t \in Steps(cfg) |-> 0]]]],
          input_spikecount |-> isc]

\* Lines 120-134.  np.zeros raises for a negative dimension, before
\* self._input_spikecount is reset.
SimulateEntry(cfg, isc, x) ==
    IF cfg.num_timesteps < 0
    THEN [sim |-> Raise([IdleSim EXCEPT !.x_b_l = x], "ValueError"),
          input_spikecount |-> isc]
    ELSE [sim |-> [IdleSim EXCEPT
                     !.pc = "loop",
                     !.x_b_l = x,
                     !.input_b_l = [b \in Batch(cfg) |-> [n \in Inputs |->
                                       x[b][n] * dt]],
                     !.output_b_l_t = [b \in Batch(cfg) |-> [l \in Classes |->
                                          [t \in Steps(cfg) |-> 0]]]],
          input_spikecount |-> 0]

NetworkResetAtEntry(cfg, net) == reset(cfg, net, 0)

\* Lines 116-134 call nothing on self.snn: the loop starts on the network
\* as the call found it.
NetworkAtEntry(cfg, net) == net

\* The loop has another iteration to run.
LoopRuns(cfg, s) ==
    s.pc = "loop" /\ ~s.broke /\ s.sim_step_int + 1 < cfg.num_timesteps

\* The loop was left: by the break or because range() is exhausted.
LoopLeft(cfg, s) ==
    s.pc = "loop" /\ (s.broke \/ s.sim_step_int + 1 >= cfg.num_timesteps)

UsesEvents(cfg) == ~cfg.poisson_input /\ cfg.dataset_format = "aedat"

\* set_spiketrains in temporal-pattern mode prints np.sum of both buffers,
\* whether or not they are None.  It is called for the layers whose
\* spiketrain is not None.
PatternRecordFails(cfg) ==
    cfg.has_spiketrain /\ (~cfg.log_spiketrains \/ ~cfg.log_spikerates)

\* The statistics buffers of the SNN, and whether one is allocated (not
\* None) under a configuration.
BufferNames == {"spiketrains_n_b_l_t", "spikerates_n_b_l", "mem_n_b_l_t",
                "synaptic_operations_b_t", "neuron_operations_b_t",
                "input_b_l_t"}

Allocated(cfg, buf) ==
    CASE buf = "spiketrains_n_b_l_t" -> cfg.log_spiketrains
      [] buf = "spikerates_n_b_l" -> cfg.log_spikerates
      [] buf = "mem_n_b_l_t" -> cfg.log_mem
      [] buf = "synaptic_operations_b_t" -> cfg.log_synaptic_operations
      [] buf = "neuron_operations_b_t" -> cfg.log_neuron_operations
      [] buf = "input_b_l_t" -> cfg.log_input_b_l_t

\* One access to a buffer: op is "write" or "read", layer the index the
\* buffer is subscripted with (InputUnit for the charge of the stimulus),
\* slot the timestep subscript (WholeAxis for the whole time axis).
InputUnit == -1
WholeAxis == -1
Access(buf, op, layer, slot) ==
    [buffer |-> buf, op |-> op, layer |-> layer, slot |-> slot]

\* SNN.set_spiketrains(layer, i, sim_step_int), up to the statement that
\* raises if one does.
set_spiketrains(cfg, i, t) ==
    IF cfg.temporal_pattern_coding
    THEN (IF cfg.log_spiketrains
          THEN <<Access("spiketrains_n_b_l_t", "write", i, WholeAxis)>>
          ELSE <<>>)
         \o (IF cfg.log_spikerates
             THEN <<Access("spikerates_n_b_l", "write", i, WholeAxis)>>
             ELSE <<>>)
         \o <<Access("spiketrains_n_b_l_t", "read", i, WholeAxis)>>
         \o (IF cfg.log_spiketrains
             THEN <<Access("spikerates_n_b_l", "read", i, WholeAxis)>>
             ELSE <<>>)
    ELSE IF cfg.log_spiketrains
         THEN <<Access("spiketrains_n_b_l_t", "write", i, t)>>
         ELSE <<>>

\* SNN.set_synaptic_operations(layer, i, sim_step_int)
set_synaptic_operations(cfg, i, t) ==
    IF cfg.temporal_pattern_coding
    THEN [k \in 1 .. cfg.num_timesteps |->
            Access("synaptic_operations_b_t", "write", i, k - 1)]
    ELSE <<Access("synaptic_operations_b_t", "write", i, t)>>

\* SNN.set_neuron_operations(i, sim_step_int)
set_neuron_operations(cfg, i, t) ==
    IF cfg.temporal_pattern_coding
    THEN <<Access("neuron_operations_b_t", "write", i, WholeAxis)>>
    ELSE <<Access("neuron_operations_b_t", "write", i, t)>>

\* Lines 170-187 for the k-th layer with a spike train and a membrane
\* potential (counted from 0), when nothing raises.
RecordLayer(cfg, k, t) ==
    (IF cfg.has_spiketrain
     THEN set_spiketrains(cfg, k, t)
          \o (IF cfg.log_synaptic_operations
              THEN set_synaptic_operations(cfg, k, t) ELSE <<>>)
          \o (IF cfg.log_neuron_operations
              THEN set_neuron_operations(cfg, k, t) ELSE <<>>)
     ELSE <<>>)
    \o (IF cfg.log_mem THEN <<Access("mem_n_b_l_t", "write", k, t)>>
        ELSE <<>>)

RECURSIVE RecordLayers(_, _, _)
RecordLayers(cfg, k, t) ==
    IF k < 0 THEN <<>>
    ELSE RecordLayers(cfg, k - 1, t) \o RecordLayer(cfg, k, t)

\* Lines 186-187: the stimulus of the iteration is kept.
LogInput(cfg, t) ==
    IF cfg.log_input_b_l_t
    THEN <<Access("input_b_l_t", "write", InputUnit, t)>>
    ELSE <<>>

ChargeInputEveryStep(cfg, t) ==
    IF cfg.poisson_input \/ cfg.dataset_format = "aedat"
    THEN IF cfg.log_synaptic_operations
         THEN <<Access("synaptic_operations_b_t", "write", InputUnit, t)>>
         ELSE <<>>
    ELSE IF cfg.log_neuron_operations
         THEN <<Access("neuron_operations_b_t", "write", InputUnit, t)>>
         ELSE <<>>

\* Lines 188-196: the charge for the input.
ChargeInput(cfg, t) ==
    IF cfg.poisson_input \/ cfg.dataset_format = "aedat"
    THEN IF cfg.log_synaptic_operations
         THEN <<Access("synaptic_operations_b_t", "write", InputUnit, t)>>
         ELSE <<>>
    ELSE IF cfg.log_neuron_operations /\ t = 0
         THEN <<Access("neuron_operations_b_t", "write", InputUnit, 0)>>
         ELSE <<>>

\* self.fanout, self.fanin and self.num_neurons of the network above, at the
\* indices the driver reads: every input element feeds one unit of the
\* second layer.
fanout == [i \in {0} |-> 1]
fanin == [i \in {1} |-> 1]
num_neurons == [i \in {1} |-> NumInputs]

\* snntoolbox.utils.utils.get_layer_synaptic_operations with a scalar
\* fan-out: per sample, the number of nonzero entries times the fan-out.
get_layer_synaptic_operations(cfg, spiketrains_b_l, fan) ==
    [b \in Batch(cfg) |->
        Cardinality({n \in DOMAIN spiketrains_b_l[b] :
                        spiketrains_b_l[b][n] # 0}) * fan]

\* Lines 188-196: what is added for the input in iteration t, per sample,
\* to which buffer and slot.
InputCharge(cfg, t, input_b_l) ==
    [k \in DOMAIN ChargeInput(cfg, t) |->
        [buffer |-> ChargeInput(cfg, t)[k].buffer,
         slot |-> ChargeInput(cfg, t)[k].slot,
         amount |-> IF ChargeInput(cfg, t)[k].buffer
                         = "synaptic_operations_b_t"
                    THEN get_layer_synaptic_operations(cfg, input_b_l,
                                                       fanout[0])
                    ELSE [b \in Batch(cfg) |->
                            fanin[1] * num_neurons[1] * 1 * 2]]]

\* The buffer accesses of iteration t, lines 170-196, in order.  When
\* set_spiketrains raises it does so for the first layer it is called for.
RecordStep(cfg, t) ==
    IF cfg.temporal_pattern_coding /\ PatternRecordFails(cfg)
    THEN set_spiketrains(cfg, 0, t)
    ELSE RecordLayers(cfg, Cardinality(Stateful) - 1, t)
         \o LogInput(cfg, t)
         \o ChargeInput(cfg, t)

BreaksInAnyMode(cfg, out_b_l_t) ==
    \/ AllReachedTopK(cfg, out_b_l_t)
    \/ cfg.temporal_pattern_coding

BreaksOnConfidenceOnly(cfg, out_b_l_t) ==
    cfg.use_isi_code /\ AllReachedTopK(cfg, out_b_l_t)

\* Lines 213-219.
Breaks(cfg, out_b_l_t) ==
    \/ cfg.use_isi_code /\ AllReachedTopK(cfg, out_b_l_t)
    \/ cfg.temporal_pattern_coding

\* The event source (an external collaborator): it holds a fixed number of
\* chunks and hands them out in order, the chunk at position pos next; asked
\* for a chunk when none is left, it raises.
EventSource(n) == [held |-> n, pos |-> 0]

\* dvs_gen.next_eventframe_batch(), where frame is what the chunk at the
\* source's position holds.
next_eventframe_batch(gen, frame) ==
    IF gen.pos >= gen.held
    THEN [err |-> "StopIteration", dvs_gen |-> gen]
    ELSE [err |-> "none", dvs_gen |-> [gen EXCEPT !.pos = @ + 1],
          chunk |-> gen.pos, input_b_l |-> frame]

StimulusKept(cfg, s, pois, pull) ==
    IF cfg.poisson_input THEN pois.input_b_l ELSE s.input_b_l

\* Lines 139-143: the stimulus of the iteration: a Poisson frame, else with
\* event input the chunk just pulled, else the input of line 120.
Stimulus(cfg, s, pois, pull) ==
    IF cfg.poisson_input THEN pois.input_b_l
    ELSE IF cfg.dataset_format = "aedat" THEN pull.input_b_l
    ELSE s.input_b_l

\* One iteration of the loop, lines 135-219, with the draws r of
\* random_sample and the content frame of the event source's next chunk.
\* Nothing catches what next_eventframe_batch raises.
SimulateStep(cfg, net, isc, s, gen, r, frame) ==
    LET i == s.sim_step_int + 1
        net1 == set_time(net, (i + 1) * dt)
        pois == get_poisson_frame_batch(cfg, isc, s.x_b_l, r)
        pull == next_eventframe_batch(gen, frame)
        stim == Stimulus(cfg, s, pois, pull)
        isc1 == IF cfg.poisson_input THEN pois.input_spikecount ELSE isc
        fwd == predict_on_batch(cfg, net1, stim)
        s1 == [s EXCEPT !.sim_step_int = i, !.input_b_l = stim,
                        !.out_spikes = fwd.out_spikes]
        out1 == IF cfg.temporal_pattern_coding
                THEN WritePattern(cfg, fwd.out_spikes)
                ELSE WriteStep(cfg, s.output_b_l_t, fwd.out_spikes, i)
        s2 == [s1 EXCEPT !.output_b_l_t = out1]
    IN  IF UsesEvents(cfg) /\ pull.err # "none"
        THEN [snn |-> net1, input_spikecount |-> isc,
              dvs_gen |-> pull.dvs_gen,
              sim |-> Raise([s EXCEPT !.sim_step_int = i], pull.err),
              forward |-> FALSE, branch |-> "none", mask |-> NoTensor,
              access |-> <<>>, pushed |-> (i + 1) * dt,
              pulls |-> <<>>, asked |-> 1]
        ELSE LET rest == [snn |-> fwd.snn, input_spikecount |-> isc1,
                          dvs_gen |-> IF UsesEvents(cfg) THEN pull.dvs_gen
                                      ELSE gen,
                          pulls |-> IF UsesEvents(cfg)
                                    THEN <<[chunk |-> pull.chunk,
                                            input_b_l |-> pull.input_b_l]>>
                                    ELSE <<>>,
                          asked |-> IF UsesEvents(cfg) THEN 1 ELSE 0,
                          forward |-> TRUE,
                          pushed |-> (i + 1) * dt,
                          clock |-> net1.time,
                          access |-> IF cfg.temporal_pattern_coding
                                        /\ ~Broadcastable(cfg)
                                     THEN <<>> ELSE RecordStep(cfg, i),
                          charge |-> IF cfg.temporal_pattern_coding
                                        /\ (~Broadcastable(cfg)
                                            \/ PatternRecordFails(cfg))
                                     THEN <<>>
                                     ELSE InputCharge(cfg, i, stim),
                          branch |-> IF cfg.poisson_input THEN pois.branch
                                     ELSE "none",
                          mask |-> IF cfg.poisson_input THEN pois.mask
                                   ELSE NoTensor]
             IN  IF cfg.temporal_pattern_coding /\ ~Broadcastable(cfg)
                 THEN rest @@ [sim |-> Raise(s1, "ValueError")]
                 ELSE IF cfg.temporal_pattern_coding
                         /\ PatternRecordFails(cfg)
                 THEN rest @@ [sim |-> Raise(s2, "TypeError")]
                 ELSE rest @@ [sim |-> [s2 EXCEPT
                                          !.broke = Breaks(cfg, out1)]]

\* Lines 221-233.  In temporal-pattern mode scale_fac is bound only inside
\* the loop.
SimulateReturn(cfg, s) ==
    LET out1 == IF cfg.use_isi_code THEN Binarize(cfg, s.output_b_l_t)
                ELSE s.output_b_l_t
        s1 == [s EXCEPT !.output_b_l_t = out1]
    IN  IF cfg.temporal_pattern_coding
        THEN IF s.sim_step_int < 0
             THEN Raise(s1, "UnboundLocalError")
             ELSE [s1 EXCEPT !.pc = "done",
                             !.result = ScaledCumSum(cfg, out1)]
        ELSE [s1 EXCEPT !.pc = "done", !.result = BoolCumSum(cfg, out1)]

-----------------------------------------------------------------------------
(* What a call is given, and the history kept of it.                       *)

Sample(a, b) == [n \in Inputs |-> IF n = 0 THEN a ELSE b]

\* Input samples, in units of 1/Den.
Samples == {Sample(1, 2), Sample(-2, 0), Sample(0, 0)}

\* kwargs['x_b_l'].  With event input the batch is never shown to the
\* network, so one batch stands for all.
XChoices(cfg) ==
    IF UsesEvents(cfg) THEN {[b \in Batch(cfg) |-> Sample(0, 0)]}
    ELSE [Batch(cfg) -> Samples]

DrawChoices(cfg) ==
    IF cfg.poisson_input THEN [Batch(cfg) -> [Inputs -> Draws]]
    ELSE {[b \in Batch(cfg) |-> [n \in Inputs |-> 0]]}

\* A chunk of the event source holds at most one event per sample.
EventFrames == {Sample(0, 0), Sample(Den, 0), Sample(0, Den)}

FrameChoices(cfg) ==
    IF UsesEvents(cfg) THEN [Batch(cfg) -> EventFrames]
    ELSE {Zeros(Batch(cfg), Inputs)}

EmptyHist(cfg) ==
    [num_forward |-> 0,
     raw |-> <<>>,       \* out_spikes of every forward pass
     stim |-> <<>>,      \* the stimulus of every forward pass
     before |-> <<>>,    \* input_spikecount when the stimulus was asked for
     branch |-> <<>>,    \* the branch get_poisson_frame_batch took
     emitted |-> [b \in Batch(cfg) |-> 0],  \* nonzero stimulus entries
     draws |-> <<>>,     \* the draws of every iteration
     frames |-> <<>>,    \* the chunk offered to every iteration
     chunks |-> 0,       \* chunks the event source held at the call
     pulls |-> <<>>,     \* the chunks the event source handed out
     asked |-> 0,        \* calls of next_eventframe_batch
     access |-> <<>>,    \* the accesses to statistics buffers, in order
     start |-> <<>>,     \* what a repeated call found when it was made
     pushed |-> <<>>,    \* the time of every set_time call
     clock |-> <<>>,     \* the layer clocks every forward pass found
     charge |-> <<>>]    \* what every forward pass was followed by adding
                         \* for the input

Record(cfg, h, isc, n, r, frame) ==
    IF ~n.forward
    THEN [h EXCEPT !.draws = Append(h.draws, r),
                   !.frames = Append(h.frames, frame),
                   !.pushed = Append(h.pushed, n.pushed),
                   !.pulls = h.pulls \o n.pulls,
                   !.asked = h.asked + n.asked]
    ELSE [num_forward |-> h.num_forward + 1,
          draws |-> Append(h.draws, r),
          frames |-> Append(h.frames, frame),
          chunks |-> h.chunks,
          pulls |-> h.pulls \o n.pulls,
          asked |-> h.asked + n.asked,
          access |-> h.access \o n.access,
          start |-> h.start,
          pushed |-> Append(h.pushed, n.pushed),
          clock |-> Append(h.clock, n.clock),
          charge |-> Append(h.charge, n.charge),
          raw |-> Append(h.raw, n.sim.out_spikes),
          stim |-> Append(h.stim, n.sim.input_b_l),
          before |-> Append(h.before, isc),
          branch |-> Append(h.branch, n.branch),
          emitted |-> [b \in Batch(cfg) |-> h.emitted[b] +
                         Cardinality({m \in Inputs :
                                        n.sim.input_b_l[b][m] # 0})]]

-----------------------------------------------------------------------------
(* Configurations.                                                         *)

Modes == [use_isi_code : BOOLEAN, temporal_pattern_coding : BOOLEAN]

Standard == {m \in Modes : ~m.use_isi_code /\ ~m.temporal_pattern_coding}

Encodings == [poisson_input : BOOLEAN, dataset_format : {"npz", "aedat"}]

ConfigsOf(modes, encodings) ==
    {[use_isi_code |-> m.use_isi_code,
      temporal_pattern_coding |-> m.temporal_pattern_coding,
      poisson_input |-> e.poisson_input,
      dataset_format |-> e.dataset_format,
      batch_size |-> bs,
      num_timesteps |-> nt,
      top_k |-> k,
      num_poisson_events_per_sample |-> cap,
      v_thresh |-> th,
      log_spiketrains |-> ls,
      log_spikerates |-> lr,
      log_mem |-> TRUE,
      log_synaptic_operations |-> TRUE,
      log_neuron_operations |-> TRUE,
      log_input_b_l_t |-> TRUE,
      has_spiketrain |-> TRUE] :
        m \in modes, e \in encodings, bs \in BatchSizes,
        nt \in -1 .. MaxTimesteps, k \in 1 .. MaxTopK, cap \in -1 .. MaxCap,
        th \in {1, Den}, ls \in BOOLEAN, lr \in BOOLEAN}

\* Settings that are never read under a configuration are held at one value
\* (top_k is read at line 214 with use_isi_code only, the cap at line 282
\* with Poisson input only); units that spike below 1.0 are run on
\* rate-coded input.
Canonical(c) ==
    /\ c.use_isi_code \/ c.top_k = 1
    /\ c.poisson_input \/ c.num_poisson_events_per_sample = -1
    /\ c.v_thresh = Den
         \/ (~c.poisson_input /\ c.dataset_format = "npz")

\* Outside temporal-pattern mode log_spiketrains decides only whether line
\* 344 writes the spike trains, and log_spikerates is not read; there the
\* decoding specifications request both, and SpecRecording runs every
\* combination of requested statistics.  In temporal-pattern mode, where
\* lines 340-341 read both buffers, every combination is run.
StatisticsRequested(c) ==
    c.temporal_pattern_coding \/ (c.log_spiketrains /\ c.log_spikerates)

\* Every decoding mode, on rate-coded and on event input.
DecodeConfigs ==
    {c \in ConfigsOf(Modes, {e \in Encodings : ~e.poisson_input}) :
        Canonical(c) /\ StatisticsRequested(c)}

\* Poisson input under every cap, decoded in standard mode.
PoissonConfigs ==
    {c \in ConfigsOf(Standard, {e \in Encodings : e.poisson_input}) :
        Canonical(c) /\ StatisticsRequested(c)}

\* The event source (an external collaborator) holds as many chunks as
\* there are timesteps, none, or (for a batch of one) one chunk less.
ChunkCounts(cfg) ==
    IF UsesEvents(cfg) /\ cfg.num_timesteps > 0
    THEN {cfg.num_timesteps, 0}
         \cup (IF cfg.batch_size = 1 THEN {cfg.num_timesteps - 1} ELSE {})
    ELSE {0}

-----------------------------------------------------------------------------
(* The driver as a state machine: one simulate call on a fresh network.    *)

Fresh ==
    /\ snn = InitSnn(config)
    /\ input_spikecount = 0
    /\ sim = IdleSim
    /\ dvs_gen \in {EventSource(n) : n \in ChunkCounts(config)}
    /\ hist = EmptyHist(config)
    /\ calls = 0
    /\ since_reset = 0

Init ==
    /\ config \in DecodeConfigs
    /\ Fresh

InitPoisson ==
    /\ config \in PoissonConfigs
    /\ Fresh

\* simulate is called.
simulate_call ==
    /\ sim.pc = "idle"
    /\ calls = 0
    /\ \E x \in XChoices(config) :
         LET e == SimulateEntry(config, input_spikecount, x)
         IN  /\ sim' = e.sim
             /\ input_spikecount' = e.input_spikecount
    /\ calls' = calls + 1
    /\ since_reset' = since_reset + 1
    /\ hist' = [EmptyHist(config) EXCEPT !.chunks = dvs_gen.held]
    /\ snn' = NetworkAtEntry(config, snn)
    /\ UNCHANGED <<config, dvs_gen>>

\* What a repeated call was given is remembered, to run it again elsewhere.
Remembered(v) == IF calls > 1 THEN v ELSE <<>>

\* One iteration of the loop over the timesteps.
simulate_loop ==
    /\ LoopRuns(config, sim)
    /\ \E r \in DrawChoices(config), frame \in FrameChoices(config) :
         \E n \in {SimulateStep(config, snn, input_spikecount, sim, dvs_gen,
                                r, frame)} :
             /\ snn' = n.snn
             /\ input_spikecount' = n.input_spikecount
             /\ sim' = n.sim
             /\ dvs_gen' = n.dvs_gen
             /\ hist' = Record(config, hist, input_spikecount, n,
                               Remembered(r), Remembered(frame))
    /\ UNCHANGED <<config, calls, since_reset>>

\* The loop is over: post-process and return.
simulate_exit ==
    /\ LoopLeft(config, sim)
    /\ sim' = SimulateReturn(config, sim)
    /\ UNCHANGED <<config, snn, input_spikecount, dvs_gen, hist, calls,
                   since_reset>>

Next == simulate_call \/ simulate_loop \/ simulate_exit

Spec == Init /\ [][Next]_vars

SpecPoisson == InitPoisson /\ [][Next]_vars

\* Calls decoded in standard mode.  A call that has started is run to its
\* end: nothing but the loop itself is scheduled while simulate runs.
InitStandard ==
    /\ config \in {c \in DecodeConfigs :
                      ~c.use_isi_code /\ ~c.temporal_pattern_coding}
    /\ Fresh

FairSpec == InitStandard /\ [][Next]_vars /\ WF_vars(Next)

-----------------------------------------------------------------------------
(* Two calls on one network, with or without a reset between them.         *)

TwoCallConfigs ==
    {c \in DecodeConfigs \cup PoissonConfigs :
        /\ c.batch_size = 1
        /\ c.num_timesteps \in 1 .. MaxTimesteps - 1
        /\ ~c.temporal_pattern_coding
        /\ c.num_poisson_events_per_sample \in {-1, 1}
        /\ c.top_k <= 2}

InitTwoCalls ==
    /\ config \in TwoCallConfigs
    /\ Fresh

\* The caller resets the network between two calls.
reset_call ==
    /\ sim.pc \in {"done", "error"}
    /\ since_reset > 0
    /\ \E sample_idx \in 0 .. 1 : snn' = reset(config, snn, sample_idx)
    /\ since_reset' = 0
    /\ UNCHANGED <<config, input_spikecount, sim, dvs_gen, hist, calls>>

\* simulate is called again on the same network.
simulate_again ==
    /\ sim.pc \in {"done", "error"}
    /\ calls < MaxCalls
    /\ \E x \in XChoices(config) :
         LET e == SimulateEntry(config, input_spikecount, x)
         IN  /\ sim' = e.sim
             /\ input_spikecount' = e.input_spikecount
    /\ \E chunks \in ChunkCounts(config) :
         /\ dvs_gen' = EventSource(chunks)
         /\ hist' = [EmptyHist(config) EXCEPT
                       !.chunks = chunks,
                       !.start = [snn |-> snn,
                                  input_spikecount |-> input_spikecount]]
    /\ calls' = calls + 1
    /\ since_reset' = since_reset + 1
    /\ snn' = NetworkAtEntry(config, snn)
    /\ UNCHANGED config

NextTwoCalls == Next \/ reset_call \/ simulate_again

SpecTwoCalls == InitTwoCalls /\ [][NextTwoCalls]_vars

\* A whole call as a function of what it starts from and is given: the
\* draws rs[i] and chunks frames[i] of iteration i, zero beyond their end.
Nth(seq, i, default) == IF i \in 1 .. Len(seq) THEN seq[i] ELSE default

RECURSIVE RunLoop(_, _, _, _, _, _, _)
RunLoop(cfg, net, isc, s, gen, rs, frames) ==
    IF LoopRuns(cfg, s)
    THEN LET i == s.sim_step_int + 2
             n == SimulateStep(cfg, net, isc, s, gen,
                               Nth(rs, i, Zeros(Batch(cfg), Inputs)),
                               Nth(frames, i, Zeros(Batch(cfg), Inputs)))
         IN  RunLoop(cfg, n.snn, n.input_spikecount, n.sim, n.dvs_gen,
                     rs, frames)
    ELSE [snn |-> net, input_spikecount |-> isc,
          sim |-> IF LoopLeft(cfg, s) THEN SimulateReturn(cfg, s) ELSE s]

RunSimulate(cfg, net, isc, x, gen, rs, frames) ==
    LET e == SimulateEntry(cfg, isc, x)
    IN  RunLoop(cfg, NetworkAtEntry(cfg, net), e.input_spikecount, e.sim,
                gen, rs, frames)

-----------------------------------------------------------------------------
(* SNN.load.                                                               *)

\* What keras.models.load_model does with the file: it returns a model
\* ("returns"), or raises KeyError or another error.
LoaderOutcomes == {"returns", "KeyError", "OSError"}

loadDropsNetwork(cfg, net, outcome) ==
    IF outcome = "returns" THEN [snn |-> InitSnn(cfg), err |-> "none"]
    ELSE IF outcome = "KeyError"
    THEN [snn |-> NoTensor, err |-> "NotImplementedError"]
    ELSE [snn |-> net, err |-> outcome]

\* SNN.load: self.snn is assigned only when the loader returns; a KeyError
\* is raised on as NotImplementedError, any other error as it is.
load(cfg, net, outcome) ==
    IF outcome = "returns" THEN [snn |-> InitSnn(cfg), err |-> "none"]
    ELSE IF outcome = "KeyError"
    THEN [snn |-> net, err |-> "NotImplementedError"]
    ELSE [snn |-> net, err |-> outcome]

\* load is called on a network that is not in the middle of a simulate call.
load_call ==
    /\ sim.pc \in {"idle", "done", "error", "loaded"}
    /\ \E outcome \in LoaderOutcomes :
         LET r == load(config, snn, outcome)
         IN  /\ snn' = r.snn
             /\ sim' = [IdleSim EXCEPT
                          !.pc = IF r.err = "none" THEN "loaded" ELSE "error",
                          !.err = r.err,
                          !.loader = outcome]
             /\ since_reset' = IF r.err = "none" THEN 0 ELSE since_reset
    /\ UNCHANGED <<config, input_spikecount, dvs_gen, hist, calls>>

NextLoad == Next \/ load_call

SpecLoad == InitTwoCalls /\ [][NextLoad]_vars

-----------------------------------------------------------------------------
(* One call under every combination of allocated statistics buffers.       *)

Recordings ==
    [log_spiketrains : BOOLEAN, log_spikerates : BOOLEAN, log_mem : BOOLEAN,
     log_synaptic_operations : BOOLEAN, log_neuron_operations : BOOLEAN,
     log_input_b_l_t : BOOLEAN, has_spiketrain : BOOLEAN]

RecordingConfigs ==
    {[c EXCEPT !.log_spiketrains = r.log_spiketrains,
               !.log_spikerates = r.log_spikerates,
               !.log_mem = r.log_mem,
               !.log_synaptic_operations = r.log_synaptic_operations,
               !.log_neuron_operations = r.log_neuron_operations,
               !.log_input_b_l_t = r.log_input_b_l_t,
               !.has_spiketrain = r.has_spiketrain] :
        c \in {d \in DecodeConfigs \cup PoissonConfigs :
                  /\ d.batch_size = 1
                  /\ d.num_timesteps \in {1, num_bits}
                  /\ d.top_k = 1 /\ d.v_thresh = Den
                  /\ d.num_poisson_events_per_sample = -1
                  /\ d.log_spiketrains /\ d.log_spikerates},
        r \in Recordings}

\* The recorded runs are made on networks with and without biases.
InitRecording ==
    /\ config \in RecordingConfigs
    /\ snn \in {compile(config, bias) : bias \in BiasChoices}
    /\ input_spikecount = 0
    /\ sim = IdleSim
    /\ dvs_gen \in {EventSource(n) : n \in ChunkCounts(config)}
    /\ hist = EmptyHist(config)
    /\ calls = 0
    /\ since_reset = 0

SpecRecording == InitRecording /\ [][Next]_vars

-----------------------------------------------------------------------------
(* to_binary called on its own.                                            *)

\* Entries of x, in units of 1/Den: below zero, fractional, in range and
\* beyond 2^num_bits.
XValues(nb) == (-Den) .. ((Pow2(nb) + 1) * Den)

\* x of shape (rows, 2): the first row holds a and b, a second row (never
\* read) holds them in the other order.
BinaryInputs(nb) ==
    {[r \in 0 .. rows - 1 |->
        [l \in 0 .. 1 |-> IF (r + l) % 2 = 0 THEN a ELSE b]] :
        rows \in 1 .. 2, a \in XValues(nb), b \in {0, 3 * Den}}

\* A configuration under which simulate calls to_binary.
InitToBinary ==
    /\ config \in {c \in DecodeConfigs :
                      /\ c.temporal_pattern_coding /\ ~c.use_isi_code
                      /\ c.num_timesteps = num_bits /\ c.batch_size = 1
                      /\ c.log_spiketrains /\ c.log_spikerates
                      /\ c.dataset_format = "npz"}
    /\ snn = InitSnn(config)
    /\ input_spikecount = 0
    /\ dvs_gen = EventSource(0)
    /\ hist = EmptyHist(config)
    /\ calls = 0
    /\ since_reset = 0
    /\ \E nb \in 1 .. MaxBits, sf \in {1, 2} :
         \E x \in BinaryInputs(nb) :
            sim = [pc |-> "to_binary", x |-> x, num_bits |-> nb,
                   scale_fac |-> sf, binary_array |-> NoTensor]

\* to_binary runs and returns binary_array.
to_binary_call ==
    /\ sim.pc = "to_binary"
    /\ sim' = [sim EXCEPT
                 !.pc = "to_binary_done",
                 !.binary_array = to_binary(sim.x, sim.num_bits,
                                            sim.scale_fac)]
    /\ UNCHANGED <<config, snn, input_spikecount, dvs_gen, hist, calls,
                   since_reset>>

SpecToBinary == InitToBinary /\ [][to_binary_call]_vars

-----------------------------------------------------------------------------
(* The Lasagne model library: extract (lasagne_input_lib.py).  A Lasagne   *)
(* layer object is a record of the attributes extract reads; a parameter   *)
(* array is a term that names where it comes from, so that what ends up in *)
(* an entry can be traced; a printed or composed string is the sequence of *)
(* its parts, a number being the sequence of its decimal digits.           *)

layer_dict(name) ==
    CASE name = "DenseLayer" -> "Dense"
      [] name = "Conv2DLayer" -> "Convolution2D"
      [] name = "Conv2DDNNLayer" -> "Convolution2D"
      [] name = "MaxPool2DLayer" -> "MaxPooling2D"
      [] name = "Pool2DLayer" -> "AveragePooling2D"
      [] name = "DropoutLayer" -> "Dropout"
      [] name = "FlattenLayer" -> "Flatten"
      [] name = "BatchNormLayer" -> "BatchNormalization"
      [] name = "NonlinearityLayer" -> "Activation"
      [] OTHER -> name

activation_dict(name) ==
    CASE name = "rectify" -> "relu"
      [] name = "softmax" -> "softmax"
      [] name = "binary_tanh_unit" -> "softsign"
      [] OTHER -> "linear"

\* snntoolbox.config: the layer types the simulators implement.
spiking_layers ==
    {"Dense", "Convolution2D", "MaxPooling2D", "AveragePooling2D", "Flatten"}

\* settings['batch_size'], and the None of the batch axis of a Lasagne shape.
settings_batch_size == 1
NoneDim == -1

\* str(n) for n >= 0: the decimal digits.
RECURSIVE Str(_)
Str(n) == IF n < 10 THEN <<n>> ELSE Append(Str(n \div 10), n % 10)

\* seq[i] and seq[a:b] with Python's indices: 0-based, negative ones count
\* from the end, a slice is clipped to the sequence.
PyInRange(seq, i) == -Len(seq) <= i /\ i < Len(seq)
PyAt(seq, i) == seq[(IF i < 0 THEN i + Len(seq) ELSE i) + 1]
PyClip(seq, i) ==
    LET j == IF i < 0 THEN i + Len(seq) ELSE i
    IN  IF j < 0 THEN 0 ELSE IF j > Len(seq) THEN Len(seq) ELSE j
PySlice(seq, a, b) == SubSeq(seq, PyClip(seq, a) + 1, PyClip(seq, b))

\* np.prod(shape[1:]).
RECURSIVE ProdFrom(_, _)
ProdFrom(shape, i) ==
    IF i > Len(shape) THEN 1 ELSE shape[i] * ProdFrom(shape, i + 1)

\* A parameter array: the array `name` of source layer `layer`, or what a
\* function returns for the arrays `args`.
ParamValue(layer_num, name) ==
    [fn |-> "value", name |-> name, layer |-> layer_num, args |-> <<>>]
Applied(fn, name, args) ==
    [fn |-> fn, name |-> name, layer |-> -1, args |-> args]

\* snntoolbox.model_libs.common.absorb_bn returns the pair (w, b) computed
\* from its seven arguments.
absorb_bn(w, b, gamma, beta, mean, std, epsilon) ==
    <<Applied("absorb_bn", "W", <<w, b, gamma, beta, mean, std, epsilon>>),
      Applied("absorb_bn", "b", <<w, b, gamma, beta, mean, std, epsilon>>)>>

\* snntoolbox.model_libs.common.border_mode_string.
border_mode_string(pad, size) ==
    IF pad = <<0, 0>> THEN "valid"
    ELSE IF pad = <<size[1] \div 2, size[2] \div 2>> THEN "same"
    ELSE IF pad = <<size[1] - 1, size[2] - 1>> THEN "full"
    ELSE "NotImplementedError"

\* lasagne.layers.get_all_param_values: the parameter arrays of all layers,
\* in the order of the layers.
RECURSIVE ParamValuesOf(_, _, _)
ParamValuesOf(lasagne_layers, lo, hi) ==
    IF lo > hi THEN <<>>
    ELSE IF lo = hi
    THEN [k \in 1 .. Len(lasagne_layers[lo].params) |->
             ParamValue(lo - 1, lasagne_layers[lo].params[k])]
    ELSE LET mid == (lo + hi) \div 2
         IN  ParamValuesOf(lasagne_layers, lo, mid)
             \o ParamValuesOf(lasagne_layers, mid + 1, hi)

get_all_param_values(lasagne_layers, n) ==
    ParamValuesOf(lasagne_layers, n, Len(lasagne_layers))

\* num_str of lines 171 and 183, and a layer label made of it, of the layer
\* type and of the numbers dims that the shape string shows (lines 173 and
\* 184).
num_str(idx) == IF idx > 9 THEN Str(idx) ELSE <<0>> \o Str(idx)
Label(idx, layer_type, dims) ==
    [num_str |-> num_str(idx), layer_type |-> layer_type,
     shape_string |-> [k \in 1 .. Len(dims) |-> Str(dims[k])]]

\* Lines 178-182: the numbers the shape string of a layer shows:
\* output_shape[1] for an output of rank 2, otherwise output_shape[1], [2]
\* and [3], which raises IndexError for an output of a rank below 4.
ShapeStringFails(output_shape) ==
    Len(output_shape) # 2 /\ Len(output_shape) < 4

ShapeStringDims(output_shape) ==
    IF Len(output_shape) = 2 THEN <<PyAt(output_shape, 1)>>
    ELSE <<PyAt(output_shape, 1), PyAt(output_shape, 2),
           PyAt(output_shape, 3)>>

\* The locals of extract before the loop (lines 125-127), with the source
\* layer each appended entry was made for (-1 for an inserted one) and the
\* layer numbers printed by line 145.
ExtractStart ==
    [layers |-> <<>>, parameters_idx |-> 0, idx |-> 0, err |-> "none",
     origin |-> <<>>, printed |-> <<>>]

\* Line 147: the absorbed parameters are stored in the last entry appended.
absorbIntoLast(st, parameters) ==
    [st.layers EXCEPT ![Len(st.layers)] = ("parameters" :> parameters) @@ @]

\* Lines 138-151: a BatchNormalization layer.
AbsorbBatchNorm(lasagne_layers, all_parameters, layer_num, st) ==
    LET layer == lasagne_layers[layer_num + 1]
        bn_parameters == PySlice(all_parameters, st.parameters_idx,
                                 st.parameters_idx + 4)
        first == layer_num - 1
        second == layer_num - 2
        k == IF PyAt(lasagne_layers, first).params # <<>> THEN first
             ELSE second
        parameters == PySlice(all_parameters, st.parameters_idx - 2,
                              st.parameters_idx)
        said == [st EXCEPT !.printed = Append(@, k)]
    IN  IF ~PyInRange(lasagne_layers, first)
           \/ (PyAt(lasagne_layers, first).params = <<>>
               /\ ~PyInRange(lasagne_layers, second))
        THEN [st EXCEPT !.err = "IndexError"]
        ELSE IF Len(parameters) < 2 \/ Len(bn_parameters) < 4
                \/ st.layers = <<>>
        THEN [said EXCEPT !.err = "IndexError"]
        ELSE [said EXCEPT
                !.layers = absorbIntoLast(st,
                    absorb_bn(parameters[1], parameters[2], bn_parameters[2],
                              bn_parameters[1], bn_parameters[3],
                              Applied("reciprocal", "", <<bn_parameters[4]>>),
                              ParamValue(layer_num, "epsilon"))),
                !.parameters_idx = @ + 4]

InsertsFlattenOnLowerRank(lasagne_layers, layer_num, layer_type) ==
    Len(lasagne_layers[layer_num + 1].output_shape)
        < Len(PyAt(lasagne_layers, layer_num - 1).output_shape)

\* Lines 164-175: the condition under which a Flatten entry is inserted.
InsertsFlatten(lasagne_layers, layer_num, layer_type) ==
    /\ Len(lasagne_layers[layer_num + 1].output_shape)
         < Len(PyAt(lasagne_layers, layer_num - 1).output_shape)
    /\ layer_type # "Flatten"

\* Lines 192-200: the activation of a Dense or Convolution2D layer.
Activation(lasagne_layers, layer_num) ==
    LET own == activation_dict(lasagne_layers[layer_num + 1].nonlinearity)
        last == IF layer_num + 4 < Len(lasagne_layers) THEN layer_num + 4
                ELSE Len(lasagne_layers)
        found == {k \in layer_num + 1 .. last - 1 :
                     PyAt(lasagne_layers, k).cls = "NonlinearityLayer"}
        k == CHOOSE k \in found : \A j \in found : k <= j
    IN  IF found = {} THEN own
        ELSE activation_dict(PyAt(lasagne_layers, k).nonlinearity)

\* Lines 157-221: a layer of a type in spiking_layers is parsed.
ParseLayer(lasagne_layers, all_parameters, layer_num, layer_type, st) ==
    LET layer == lasagne_layers[layer_num + 1]
        output_shape == layer.output_shape
        first == IF st.idx = 0
                 THEN "batch_input_shape" :>
                        (<<settings_batch_size>> \o Tail(layer.input_shape))
                 ELSE <<>>
        insert == InsertsFlatten(lasagne_layers, layer_num, layer_type)
        layers == IF insert
                  THEN Append(st.layers,
                         [name |-> Label(st.idx, "Flatten",
                                         <<ProdFrom(output_shape, 2)>>),
                          layer_type |-> "Flatten"])
                  ELSE st.layers
        idx == IF insert THEN st.idx + 1 ELSE st.idx
        name == "name" :> Label(idx, layer_type,
                                ShapeStringDims(output_shape))
        weighted == layer_type \in {"Dense", "Convolution2D"}
        params == IF weighted
                  THEN ("parameters" :>
                          PySlice(all_parameters, st.parameters_idx,
                                  st.parameters_idx + 2))
                       @@ ("activation" :>
                             Activation(lasagne_layers, layer_num))
                  ELSE <<>>
        conv == IF layer_type = "Convolution2D"
                THEN [input_shape |-> layer.input_shape,
                      nb_filter |-> layer.num_filters,
                      nb_col |-> layer.filter_size[2],
                      nb_row |-> layer.filter_size[1],
                      border_mode |-> border_mode_string(layer.pad,
                                                         layer.filter_size),
                      subsample |-> layer.stride,
                      filter_flip |-> layer.flip_filters]
                ELSE <<>>
        pool == IF layer_type \in {"MaxPooling2D", "AveragePooling2D"}
                THEN [input_shape |-> layer.input_shape,
                      pool_size |-> layer.pool_size,
                      strides |-> layer.stride,
                      border_mode |-> border_mode_string(layer.pad,
                                                         layer.pool_size)]
                ELSE <<>>
        attributes == pool @@ conv @@ params @@ name @@ first
                        @@ [layer_type |-> layer_type]
        unsupported == \/ conv # <<>> /\ conv.border_mode = "NotImplementedError"
                       \/ pool # <<>> /\ pool.border_mode = "NotImplementedError"
    IN  IF ShapeStringFails(output_shape)
        THEN [st EXCEPT !.err = "IndexError"]
        ELSE IF unsupported THEN [st EXCEPT !.err = "NotImplementedError"]
        ELSE [st EXCEPT
                !.layers = Append(layers, attributes),
                !.idx = idx + 1,
                !.parameters_idx = IF weighted THEN @ + 2 ELSE @,
                !.origin = IF insert THEN @ \o <<-1, layer_num>>
                           ELSE Append(@, layer_num)]

\* Lines 128-221: one iteration of the loop over the layers.
ExtractLayer(lasagne_layers, all_parameters, layer_num, st) ==
    LET layer == lasagne_layers[layer_num + 1]
        name == IF layer.cls = "Pool2DLayer" /\ layer.mode = "max"
                THEN "MaxPool2DLayer" ELSE layer.cls
        layer_type == layer_dict(name)
        absorbed == IF layer_type = "BatchNormalization"
                    THEN AbsorbBatchNorm(lasagne_layers, all_parameters,
                                         layer_num, st)
                    ELSE st
    IN  IF absorbed.err # "none" \/ layer_type \notin spiking_layers
        THEN absorbed
        ELSE ParseLayer(lasagne_layers, all_parameters, layer_num,
                        layer_type, absorbed)

\* The iterations for the layers lo .. hi-1, in order, up to the one that
\* raises.
RECURSIVE ExtractRange(_, _, _, _, _)
ExtractRange(lasagne_layers, all_parameters, lo, hi, st) ==
    IF lo >= hi \/ st.err # "none" THEN st
    ELSE IF hi = lo + 1
    THEN ExtractLayer(lasagne_layers, all_parameters, lo, st)
    ELSE LET mid == (lo + hi) \div 2
             half == ExtractRange(lasagne_layers, all_parameters, lo, mid,
                                  st)
         IN  ExtractRange(lasagne_layers, all_parameters, mid, hi, half)

\* Line 128: the loop over the layers, from layer layer_num on.
ExtractLoop(lasagne_layers, all_parameters, layer_num, st) ==
    ExtractRange(lasagne_layers, all_parameters, layer_num,
                 Len(lasagne_layers), st)

\* extract(model), lines 122-223: model stands for the list of its layers.
extract(model) ==
    ExtractLoop(model, get_all_param_values(model, 1), 0, ExtractStart)

\* Lasagne layers as extract finds them.  A convolution keeps the shape of
\* its input, a pooling layer halves height and width.
DenseUnits == 2
InputShapes == {<<NoneDim, 3>>, <<NoneDim, 2, 4, 4>>}

InputLayer(shape) ==
    [cls |-> "InputLayer", output_shape |-> shape, params |-> <<>>]

Unweighted(cls, shape) ==
    [cls |-> cls, input_shape |-> shape, output_shape |-> shape,
     params |-> <<>>]

LayersOn(shape) ==
    {[cls |-> "DenseLayer", input_shape |-> shape,
      output_shape |-> <<NoneDim, DenseUnits>>, params |-> <<"W", "b">>,
      nonlinearity |-> "rectify"],
     [cls |-> "FlattenLayer", input_shape |-> shape,
      output_shape |-> <<NoneDim, ProdFrom(shape, 2)>>, params |-> <<>>],
     Unweighted("DropoutLayer", shape),
     [cls |-> "NonlinearityLayer", input_shape |-> shape,
      output_shape |-> shape, params |-> <<>>, nonlinearity |-> "softmax"],
     [cls |-> "BatchNormLayer", input_shape |-> shape, output_shape |-> shape,
      params |-> <<"beta", "gamma", "mean", "inv_std">>]}
    \cup
    (IF Len(shape) # 4 THEN {}
     ELSE {[cls |-> "Conv2DLayer", input_shape |-> shape,
            output_shape |-> shape, params |-> <<"W", "b">>,
            nonlinearity |-> "rectify", num_filters |-> shape[2],
            filter_size |-> <<3, 3>>, pad |-> <<1, 1>>, stride |-> <<1, 1>>,
            flip_filters |-> TRUE]})
    \cup
    (IF Len(shape) # 4 \/ shape[3] < 2 THEN {}
     ELSE {[cls |-> c.cls, mode |-> c.mode, input_shape |-> shape,
            output_shape |-> <<shape[1], shape[2], shape[3] \div 2,
                               shape[4] \div 2>>,
            params |-> <<>>, pool_size |-> <<2, 2>>, stride |-> <<2, 2>>,
            pad |-> <<0, 0>>] :
              c \in {[cls |-> "MaxPool2DLayer", mode |-> "max"],
                     [cls |-> "Pool2DLayer", mode |-> "max"],
                     [cls |-> "Pool2DLayer", mode |-> "average_inc_pad"]}})

\* The models of up to n layers after the input layer.
RECURSIVE ModelsUpTo(_)
ModelsUpTo(n) ==
    IF n = 0 THEN {<<InputLayer(s)>> : s \in InputShapes}
    ELSE LET ms == ModelsUpTo(n - 1)
         IN  ms \cup UNION {{Append(m, l) :
                                l \in LayersOn(m[Len(m)].output_shape)} :
                            m \in ms}

\* A model of n dense layers.
DenseChain(n) ==
    [k \in 1 .. n + 1 |->
        IF k = 1 THEN InputLayer(<<NoneDim, 3>>)
        ELSE CHOOSE l \in LayersOn(IF k = 2 THEN <<NoneDim, 3>>
                                   ELSE <<NoneDim, DenseUnits>>) :
                l.cls = "DenseLayer"]

\* Models whose FlattenLayer keeps three axes (outdim = 3), followed or not
\* by one more layer.
FlattenToRankThree ==
    [cls |-> "FlattenLayer", input_shape |-> <<NoneDim, 2, 4, 4>>,
     output_shape |-> <<NoneDim, 2, 16>>, params |-> <<>>]

RankThreeModels ==
    LET m == <<InputLayer(<<NoneDim, 2, 4, 4>>), FlattenToRankThree>>
    IN  {m} \cup {Append(m, l) : l \in LayersOn(<<NoneDim, 2, 16>>)}

\* The models extract is run on: every model of up to n layers, a deep one,
\* and those with an output of rank 3.
LasagneModels(n) ==
    ModelsUpTo(n) \cup {DenseChain(DeepLayers)} \cup RankThreeModels

\* extract is about to be called on a model.
InitExtract ==
    /\ config \in {c \in DecodeConfigs :
                      /\ ~c.temporal_pattern_coding /\ ~c.use_isi_code
                      /\ c.num_timesteps = 1 /\ c.batch_size = 1
                      /\ c.v_thresh = Den
                      /\ c.dataset_format = "npz"}
    /\ snn = InitSnn(config)
    /\ input_spikecount = 0
    /\ dvs_gen = EventSource(0)
    /\ hist = EmptyHist(config)
    /\ calls = 0
    /\ since_reset = 0
    /\ \E model \in LasagneModels(MaxLayers) :
         sim = [pc |-> "extract", model |-> model, extracted |-> ExtractStart]

\* extract runs: it returns its list or raises.
extract_call ==
    /\ sim.pc = "extract"
    /\ LET e == extract(sim.model)
       IN  sim' = [sim EXCEPT
                     !.pc = IF e.err = "none" THEN "extract_done"
                            ELSE "extract_error",
                     !.extracted = e]
    /\ UNCHANGED <<config, snn, input_spikecount, dvs_gen, hist, calls,
                   since_reset>>

SpecExtract == InitExtract /\ [][extract_call]_vars

-----------------------------------------------------------------------------
(* Vocabulary of the properties.                                           *)

StandardMode == ~config.use_isi_code /\ ~config.temporal_pattern_coding
FirstSpikeMode == config.use_isi_code /\ ~config.temporal_pattern_coding
PatternMode == config.temporal_pattern_coding /\ ~config.use_isi_code

Returned == sim.pc = "done"
Ended == sim.pc \in {"done", "error"}

T == config.num_timesteps
B == config.batch_size
Cap == config.num_poisson_events_per_sample

\* The number of forward passes of the call so far.
Passes == Len(hist.raw)

\* What the forward pass of timestep s wrote for sample b, class l (nothing
\* is written for a timestep that was not executed).
Stored(b, l, s) ==
    IF s < Passes THEN AsInt32(hist.raw[s + 1][b][l]) ELSE 0

\* Every sample has top_k nonzero entries among those written up to
\* timestep u.
ReachedAt(u) ==
    \A b \in Batch(config) :
        Cardinality({<<l, s>> \in Classes \X (0 .. u) : Stored(b, l, s) # 0})
            >= config.top_k

\* The call left the loop by the early exit at timestep sim.sim_step_int,
\* before the last timestep.
ExitedEarly ==
    /\ Returned
    /\ sim.broke
    /\ sim.sim_step_int < T - 1

-----------------------------------------------------------------------------
(* C1.  As claimed: after an early exit at timestep s in first-spike mode, *)
(* every later slice of the returned tensor equals the slice at s.         *)
C1_FrozenAfterEarlyExit ==
    (FirstSpikeMode /\ ExitedEarly) =>
        \A b \in Batch(config), l \in Classes :
            \A t \in (sim.sim_step_int + 1) .. (T - 1) :
                sim.result[b][l][t] = sim.result[b][l][sim.sim_step_int]

(* C1, amended.  After an early exit at timestep s in first-spike mode     *)
(* the returned tensor keeps growing by one per timestep in every entry    *)
(* that has spiked by s and stays zero elsewhere: out[t] = out[s] +        *)
(* (t - s) * [out[s] > 0] for every t > s.  What is frozen is the running  *)
(* OR, not its cumulative sum.                                             *)
C1_IncrementFrozenAfterEarlyExit ==
    (FirstSpikeMode /\ ExitedEarly) =>
        \A b \in Batch(config), l \in Classes :
            \A t \in (sim.sim_step_int + 1) .. (T - 1) :
                sim.result[b][l][t] =
                    sim.result[b][l][sim.sim_step_int]
                    + (t - sim.sim_step_int)
                      * AsBool(sim.result[b][l][sim.sim_step_int])

C1_Witness ==
    /\ FirstSpikeMode /\ ExitedEarly
    /\ sim.sim_step_int = 1 /\ T = MaxTimesteps
    /\ B = 2
    /\ \E b \in Batch(config), l \in Classes : sim.result[b][l][1] = 0
    /\ \E b \in Batch(config), l \in Classes : sim.result[b][l][1] = 2

-----------------------------------------------------------------------------
(* C2.  As claimed: with Poisson input and a cap >= 0, the number of input *)
(* spikes emitted for a sample since the start of the run never exceeds    *)
(* the cap.                                                                *)
C2_EmittedWithinCap ==
    (config.poisson_input /\ Cap >= 0) =>
        \A b \in Batch(config) : hist.emitted[b] <= Cap

-----------------------------------------------------------------------------
(* C3.  With Poisson input and a cap >= 0: once the input spike count has  *)
(* reached the cap when a stimulus is asked for, that call and every later *)
(* call of the run take the all-zero branch and return an all-zero         *)
(* stimulus, the count stays at or above the cap, and the call does not    *)
(* raise.                                                                  *)
Exhausted(j) == hist.before[j] >= Cap * B

C3_ZeroStimulusOnceExhausted ==
    (config.poisson_input /\ Cap >= 0) =>
        \A j \in 1 .. Passes :
            Exhausted(j) =>
                /\ \A k \in j .. Passes :
                     /\ hist.branch[k] = "zeros"
                     /\ hist.stim[k] = Zeros(Batch(config), Inputs)
                     /\ Exhausted(k)
                /\ input_spikecount >= Cap * B
                /\ sim.pc # "error"

C3_Witness ==
    /\ config.poisson_input /\ Cap >= 1 /\ B = 2
    /\ Returned
    /\ Passes = MaxTimesteps
    /\ ~Exhausted(1) /\ hist.before[2] = Cap * B
    /\ hist.branch[3] = "zeros"

-----------------------------------------------------------------------------
(* C4.  With Poisson input and a negative cap every call of                *)
(* get_poisson_frame_batch takes the sampling branch, whatever the count.  *)
C4_NegativeCapAlwaysSamples ==
    (config.poisson_input /\ Cap < 0) =>
        \A k \in 1 .. Passes : hist.branch[k] = "sample"

C4_Witness ==
    /\ config.poisson_input /\ Cap < 0
    /\ Passes = MaxTimesteps
    /\ hist.before[MaxTimesteps] > MaxCap * B
    /\ hist.branch[MaxTimesteps] = "sample"

-----------------------------------------------------------------------------
(* C5.  In standard mode the returned tensor is non-decreasing along the   *)
(* timestep axis.                                                          *)
C5_StandardMonotone ==
    (StandardMode /\ Returned) =>
        \A b \in Batch(config), l \in Classes :
            \A t \in 0 .. (T - 2) :
                sim.result[b][l][t] <= sim.result[b][l][t + 1]

C5_Witness ==
    /\ StandardMode /\ Returned /\ T = MaxTimesteps
    /\ \E b \in Batch(config), l \in Classes :
         /\ hist.raw[1][b][l] < 0
         /\ sim.result[b][l][0] < sim.result[b][l][1]
    /\ \E b \in Batch(config), l \in Classes :
         sim.result[b][l][0] = sim.result[b][l][1]

-----------------------------------------------------------------------------
(* C6.  As claimed: the returned entry at timestep t counts, in standard   *)
(* mode, the timesteps s <= t whose raw output was nonzero, and is, in     *)
(* first-spike mode, the cumulative sum over 0..t of the running OR of the *)
(* raw outputs.                                                            *)
RawSpiked(b, l, s) == s < Passes /\ hist.raw[s + 1][b][l] # 0

C6_CountsNonzeroRawOutputs ==
    Returned =>
        \A b \in Batch(config), l \in Classes, t \in Steps(config) :
            /\ StandardMode =>
                 sim.result[b][l][t] =
                     Cardinality({s \in 0 .. t : RawSpiked(b, l, s)})
            /\ FirstSpikeMode =>
                 sim.result[b][l][t] =
                     Cardinality({u \in 0 .. t :
                                    \E s \in 0 .. u : RawSpiked(b, l, s)})

(* C6, amended.  The same with "nonzero" read after the conversion of the  *)
(* raw output to int32: a raw output of magnitude below 1 is stored as 0   *)
(* and does not count.                                                     *)
C6_CountsNonzeroStoredOutputs ==
    Returned =>
        \A b \in Batch(config), l \in Classes, t \in Steps(config) :
            /\ StandardMode =>
                 sim.result[b][l][t] =
                     Cardinality({s \in 0 .. t : Stored(b, l, s) # 0})
            /\ FirstSpikeMode =>
                 sim.result[b][l][t] =
                     Cardinality({u \in 0 .. t :
                                    \E s \in 0 .. u : Stored(b, l, s) # 0})

C6_Witness ==
    /\ Returned /\ T = MaxTimesteps
    /\ StandardMode \/ (FirstSpikeMode /\ ExitedEarly)
    /\ \E b \in Batch(config), l \in Classes :
         /\ Stored(b, l, 0) = 0
         /\ Stored(b, l, 1) # 0
         /\ sim.result[b][l][2] = 2
    /\ \E b \in Batch(config), l \in Classes : Stored(b, l, 0) = -1

-----------------------------------------------------------------------------
(* C7.  In standard mode the loop is never left by a break: a call that    *)
(* returns has run one forward pass for each of the timesteps              *)
(* 0 .. num_timesteps-1, in this order, and every call ends.               *)
C7_StandardRunsEveryStep ==
    /\ [](StandardMode => ~sim.broke)
    /\ []((StandardMode /\ Returned) =>
            /\ Passes = T
            /\ sim.sim_step_int = T - 1)
    /\ [][(StandardMode /\ Len(hist'.raw) # Passes) =>
            /\ Len(hist'.raw) = Passes + 1
            /\ sim'.sim_step_int = Passes]_vars
    /\ ((StandardMode /\ sim.pc = "loop") ~> Ended)

C7_Witness ==
    /\ StandardMode /\ Returned /\ T = MaxTimesteps /\ B = 2
    /\ Passes = MaxTimesteps
    /\ \A b \in Batch(config) : \E l \in Classes : sim.result[b][l][0] = 1

-----------------------------------------------------------------------------
(* C8.  As claimed: in temporal-pattern mode every call makes exactly one  *)
(* forward pass, whatever num_timesteps is, and returns.                   *)
C8_OnePassThenReturn ==
    (PatternMode /\ Ended) => (Passes = 1 /\ Returned)

(* C8, amended.  In temporal-pattern mode simulate never makes a second    *)
(* forward pass; it makes exactly one when num_timesteps >= 1 and the      *)
(* stimulus of the first timestep is available, and none otherwise.  A     *)
(* call that returns has made exactly one pass and num_timesteps equals    *)
(* the bit width num_bits; for any other num_timesteps the call raises.    *)
C8_AtMostOnePass ==
    PatternMode =>
        /\ Passes <= 1
        /\ (Ended /\ T >= 1 /\ sim.err # "StopIteration") => Passes = 1
        /\ (Ended /\ T <= 0) => Passes = 0
        /\ Returned => (Passes = 1 /\ T = num_bits /\ sim.broke)
        /\ (Ended /\ T # num_bits) => sim.pc = "error"

C8_Witness ==
    /\ PatternMode /\ Returned
    /\ Passes = 1 /\ T = num_bits /\ T >= 2
    /\ \E b \in Batch(config), l \in Classes : sim.result[b][l][T - 1] > 0

-----------------------------------------------------------------------------
(* C9.  In first-spike mode the loop is left exactly at the first timestep *)
(* after whose forward pass every sample has top_k nonzero entries, over   *)
(* classes and timesteps together, in the accumulated output: no pass is   *)
(* made after such a timestep and the loop is not left by the break at a   *)
(* timestep where some sample has fewer.                                   *)
C9_ExitsWhenAllReachTopK ==
    (FirstSpikeMode /\ sim.pc \in {"loop", "done"}) =>
        /\ \A u \in 0 .. (Passes - 2) : ~ReachedAt(u)
        /\ sim.broke <=> (Passes >= 1 /\ ReachedAt(Passes - 1))
        /\ sim.sim_step_int = Passes - 1

C9_Witness ==
    /\ FirstSpikeMode /\ ExitedEarly /\ B = 2
    /\ config.top_k >= 2
    /\ Passes = 2
    /\ \E b \in Batch(config) :
         Cardinality({l \in Classes : Stored(b, l, 0) # 0}) >= config.top_k
    /\ \E b \in Batch(config) : \A l \in Classes : Stored(b, l, 0) = 0

-----------------------------------------------------------------------------
(* Two calls with a reset between them.                                    *)

\* The second call of this run came after exactly one reset.
SecondCallAfterReset == calls = 2 /\ since_reset = 1

\* The first calls of the runs this run is compared with: any input, any
\* length of the event source, on a network as built.
FirstCalls == XChoices(config) \X ChunkCounts(config)

FirstCall(f) ==
    RunSimulate(config, InitSnn(config), 0, f[1], EventSource(f[2]),
                <<>>, <<>>)

\* This run's second call, given again to a network in state net.
SecondCallOn(net, isc) ==
    RunSimulate(config, net, isc, sim.x_b_l, EventSource(hist.chunks),
                hist.draws, hist.frames).sim

\* C10: take two runs on the same network that differ only in their first
\* simulate call, with reset called between the first and the second call
\* of each.  Whatever the first calls left behind (membrane potentials,
\* clocks, the input spike count), the second calls, given the same input,
\* draws and events, end the same way with the same result.
C10_SecondCallIndependentOfFirst ==
    (SecondCallAfterReset /\ Ended) =>
        \A f \in FirstCalls, sample_idx \in 0 .. 1 :
            LET first == FirstCall(f)
                other == SecondCallOn(reset(config, first.snn, sample_idx),
                                      first.input_spikecount)
            IN  /\ other.pc = sim.pc
                /\ other.err = sim.err
                /\ other.result = sim.result

\* A second call after a reset has returned spikes, and some other first
\* call leaves a state on which, were it not reset, the same second call
\* would have returned something else.
C10_Witness ==
    /\ SecondCallAfterReset /\ Returned
    /\ \E l \in Classes : sim.result[0][l][T - 1] > 0
    /\ \E f \in FirstCalls :
         LET first == FirstCall(f)
         IN  /\ first.snn # InitSnn(config)
             /\ SecondCallOn(first.snn, first.input_spikecount).result
                    # sim.result

-----------------------------------------------------------------------------
(* to_binary.                                                              *)

\* Bit i, counted from the most significant of nb bits, of the natural
\* number v.
BitOf(v, nb, i) == (v \div Pow2(nb - i - 1)) % 2

\* The scaled value x[0, l] * scale_fac of the call is an integer that fits
\* in num_bits unsigned bits.
FitsBits(l) ==
    LET vD == sim.x[0][l] * sim.scale_fac
    IN  vD % Den = 0 /\ 0 <= vD /\ vD < Pow2(sim.num_bits) * Den

\* C11: to_binary returns num_bits bit planes, one entry per element of the
\* first row of x (the helper reads no other row).  For every element whose
\* scaled value v = x * scale_fac is an integer with 0 <= v < 2^num_bits,
\* plane i holds bit i of v, most significant bit first, and reweighting
\* plane i by 2^(num_bits-i-1) and summing gives v back.
C11_BinaryExpansionRoundTrip ==
    sim.pc = "to_binary_done" =>
        /\ DOMAIN sim.binary_array = 0 .. sim.num_bits - 1
        /\ \A i \in 0 .. sim.num_bits - 1 :
             DOMAIN sim.binary_array[i] = DOMAIN sim.x[0]
        /\ \A l \in DOMAIN sim.x[0] :
             FitsBits(l) =>
                LET v == (sim.x[0][l] * sim.scale_fac) \div Den
                IN  /\ \A i \in 0 .. sim.num_bits - 1 :
                         sim.binary_array[i][l] = BitOf(v, sim.num_bits, i)
                    /\ SumOver(0 .. sim.num_bits - 1,
                               [i \in 0 .. sim.num_bits - 1 |->
                                  sim.binary_array[i][l]
                                  * Pow2(sim.num_bits - i - 1)]) = v

\* to_binary(5.0, 4, 1.0) has returned the planes 0, 1, 0, 1.
C11_Witness ==
    /\ sim.pc = "to_binary_done"
    /\ sim.num_bits = 4 /\ sim.scale_fac = 1
    /\ sim.x[0][0] = 5 * Den /\ FitsBits(0)
    /\ [i \in 0 .. 3 |-> sim.binary_array[i][0]]
           = [i \in 0 .. 3 |-> IF i \in {1, 3} THEN 1 ELSE 0]

-----------------------------------------------------------------------------
(* Statistics whose buffer is not allocated.                               *)

\* The accesses the call has made to buffer buf.
AccessesTo(buf) ==
    {k \in 1 .. Len(hist.access) : hist.access[k].buffer = buf}

\* C12.  As claimed: in every decode mode, a statistic whose buffer is not
\* allocated is neither written nor read at any timestep, and the call does
\* not raise because the buffer is missing.
C12_AbsentBufferUntouched ==
    \A buf \in BufferNames :
        ~Allocated(config, buf) =>
            /\ AccessesTo(buf) = {}
            /\ sim.err # "TypeError"

-----------------------------------------------------------------------------
(* C13.  As claimed: in standard mode a call with num_timesteps zero or    *)
(* negative never returns: it ends with an error and no result tensor.     *)
C13_NonPositiveTimestepsAbort ==
    (StandardMode /\ T <= 0) =>
        /\ ~Returned
        /\ sim.result = NoTensor
        /\ Ended => sim.pc = "error"

-----------------------------------------------------------------------------
(* Combinations of modes.                                                  *)

\* Both decoding flags are set.
BothDecodings == config.use_isi_code /\ config.temporal_pattern_coding

\* Poisson input is asked for on an event (aedat) dataset.
BothEncodings == config.poisson_input /\ config.dataset_format = "aedat"

\* C14.  As claimed: a call under an unsupported combination of modes (both
\* decoding flags, or Poisson input together with event input) is refused
\* before any forward pass: no pass is made and the call does not return.
C14_UnsupportedCombinationRefused ==
    (BothDecodings \/ BothEncodings) => (Passes = 0 /\ ~Returned)

-----------------------------------------------------------------------------
(* Event input.                                                            *)

\* Chunks the event source has handed out.
Pulled == dvs_gen.pos

\* With event input every iteration the call has started asked the source
\* once; the k-th pass was made on the k-th chunk of the source, as the
\* source handed it out; and a refused request was the last one.
OneChunkPerTimestepInOrder ==
    /\ hist.asked = Len(hist.pushed)
    /\ Len(hist.pulls) = Passes /\ Pulled = Passes
    /\ Passes <= hist.chunks
    /\ \A k \in 1 .. Passes :
          /\ hist.pulls[k].chunk = k - 1
          /\ hist.stim[k] = hist.pulls[k].input_b_l
    /\ hist.asked = Passes + (IF sim.err = "StopIteration" THEN 1 ELSE 0)

\* The source's error ends the call without a result, at the first timestep
\* whose chunk is missing.
UnderrunAborts ==
    sim.err = "StopIteration" =>
       /\ sim.pc = "error" /\ sim.result = NoTensor
       /\ hist.chunks < T /\ Pulled = hist.chunks
       /\ Passes = hist.chunks
       /\ sim.sim_step_int = hist.chunks

\* The source held fewer chunks than num_timesteps.
Underrun == 0 <= hist.chunks /\ hist.chunks < T

\* C15 as stated: with event input one chunk is pulled per executed
\* timestep, in order, and whenever the source holds fewer chunks than
\* num_timesteps the call ends with an error and without a result, the
\* source's error being raised at the first timestep whose chunk is missing
\* and the source not being asked again.
C15_UnderrunAlwaysAborts ==
    (UsesEvents(config) /\ sim.pc # "idle") =>
        /\ OneChunkPerTimestepInOrder
        /\ UnderrunAborts
        /\ (Ended /\ Underrun) =>
              (sim.pc = "error" /\ sim.result = NoTensor)

\* C15, with the abort for the calls that reach the missing chunk: with
\* event input one chunk is pulled per executed timestep, in order; when
\* the source holds fewer chunks than num_timesteps, a call that starts the
\* first timestep whose chunk is missing ends there with the error, without
\* a result and without asking again.  Standard mode always starts that
\* timestep; in first-spike and temporal-pattern mode the loop may be left
\* before it (these modes break, and temporal-pattern mode can raise in its
\* one iteration), and the call then ends as it would on a full source.
C15_OneChunkPerTimestep ==
    (UsesEvents(config) /\ sim.pc # "idle") =>
        /\ OneChunkPerTimestepInOrder
        /\ UnderrunAborts
        /\ (Ended /\ Underrun) =>
              \/ sim.err = "StopIteration"
              \/ ~StandardMode /\ sim.sim_step_int < hist.chunks

\* A standard-mode call on a source one chunk short has made every pass but
\* the last, on chunks of different content in the order of the source, and
\* ended at the last timestep with the error.
C15_Witness ==
    /\ UsesEvents(config) /\ StandardMode
    /\ T = MaxTimesteps /\ hist.chunks = T - 1
    /\ sim.pc = "error" /\ sim.err = "StopIteration"
    /\ Passes = T - 1 /\ sim.sim_step_int = T - 1
    /\ hist.pulls[1].chunk = 0 /\ hist.pulls[2].chunk = 1
    /\ hist.pulls[1].input_b_l # hist.pulls[2].input_b_l
    /\ hist.stim[2] = hist.pulls[2].input_b_l
    /\ \E b \in Batch(config), n \in Inputs : hist.stim[Passes][b][n] # 0

-----------------------------------------------------------------------------
(* C16.  A load whose model loader fails with KeyError ends with           *)
(* NotImplementedError and leaves the network reference self.snn as it     *)
(* was before the call.                                                    *)
C16_FailedLoadKeepsNetwork ==
    /\ [](sim.loader = "KeyError" =>
            (sim.pc = "error" /\ sim.err = "NotImplementedError"))
    /\ [][sim'.loader = "KeyError" => snn' = snn]_vars

\* A load has failed that way on a network that a simulate call had left in
\* another state than the one it was built with.
C16_Witness ==
    /\ sim.loader = "KeyError" /\ sim.err = "NotImplementedError"
    /\ calls = 1
    /\ snn # InitSnn(config)
    /\ snn.mem[2] # InitMem(config, 2)

-----------------------------------------------------------------------------
(* All-zero input.                                                         *)

\* The call was given an all-zero batch, and with event input only chunks
\* without events.
ZeroInput ==
    /\ sim.pc # "idle"
    /\ sim.x_b_l = Zeros(Batch(config), Inputs)
    /\ UsesEvents(config) =>
         \A k \in 1 .. Passes : hist.stim[k] = Zeros(Batch(config), Inputs)

\* The all-zero tensor a call of this configuration returns.
ZeroResult ==
    [b \in Batch(config) |-> [l \in Classes |-> [t \in Steps(config) |-> 0]]]

\* A standard-mode call with num_timesteps = 1 on all-zero input, given an
\* event source that holds the chunk of that timestep.
ZeroInputCall ==
    /\ StandardMode /\ T = 1 /\ ZeroInput
    /\ UsesEvents(config) => hist.chunks >= 1

\* Such a call raises nothing, stimulates the network with zeros only, and
\* makes its one forward pass.
ZeroInputRuns ==
    ZeroInputCall =>
        /\ sim.pc # "error"
        /\ \A k \in 1 .. Passes : hist.stim[k] = Zeros(Batch(config), Inputs)
        /\ Returned => Passes = 1

-----------------------------------------------------------------------------
(* Two calls without a reset between them.                                 *)

\* The second call of this run was made without a reset since the first.
SecondCallWithoutReset == calls = 2 /\ since_reset = 2

\* The loop and the return of this call, run on the network and the spike
\* count the call found, with the input, draws and events it was given.
ContinuedFromStart ==
    LET e == SimulateEntry(config, hist.start.input_spikecount, sim.x_b_l)
    IN  RunLoop(config, hist.start.snn, e.input_spikecount, e.sim,
                EventSource(hist.chunks), hist.draws, hist.frames)

\* C18: a second simulate call made without a reset starts its loop on the
\* layer state the first call left: before its first iteration the network
\* is the one it found, the input spike count is zero and the output
\* tensor is all zero; and the call ends, with the result, the network
\* state and the spike count, as its loop run on the state it found does.
C18_SecondCallContinues ==
    SecondCallWithoutReset =>
        /\ (sim.pc = "loop" /\ sim.sim_step_int = -1) =>
             /\ snn = hist.start.snn
             /\ input_spikecount = 0
             /\ sim.output_b_l_t = [b \in Batch(config) |-> [l \in Classes |->
                                      [t \in Steps(config) |-> 0]]]
        /\ Ended =>
             LET o == ContinuedFromStart
             IN  /\ o.sim = sim
                 /\ o.snn = snn
                 /\ o.input_spikecount = input_spikecount

\* A second call without reset has returned something else than the same
\* call returns on a network as built.
C18_Witness ==
    /\ SecondCallWithoutReset /\ Returned
    /\ hist.start.snn # InitSnn(config)
    /\ RunSimulate(config, InitSnn(config), 0, sim.x_b_l,
                   EventSource(hist.chunks), hist.draws,
                   hist.frames).sim.result # sim.result

-----------------------------------------------------------------------------
(* extract: batch normalisation.                                           *)

\* extract has returned its list.
Extracted == sim.pc = "extract_done"

\* The numbers of the source layers of the class names in classes.
LayersOfClass(classes) ==
    {n \in 0 .. Len(sim.model) - 1 : PyAt(sim.model, n).cls \in classes}

WeightedClasses == {"DenseLayer", "Conv2DLayer", "Conv2DDNNLayer"}

\* The Dense or convolution layers before source layer n, and the nearest.
WeightedBefore(n) == {j \in LayersOfClass(WeightedClasses) : j < n}
Owner(n) == CHOOSE j \in WeightedBefore(n) : \A i \in WeightedBefore(n) : i <= j

\* The position in the returned list of the entry made for source layer j.
EntryOf(j) ==
    CHOOSE p \in 1 .. Len(sim.extracted.layers) : sim.extracted.origin[p] = j

\* C19.  As claimed: when extract has returned, for every BatchNormalization
\* layer that has a Dense or convolution layer before it, the entry of the
\* nearest such layer holds 'parameters' that absorb_bn returned for the
\* arrays of a batch normalisation (for the weights and bias of that layer
\* and the arrays of this batch normalisation, if it is the first one after
\* that layer), whatever parameter-free layers lie between the two; and no
\* entry of another type than Dense and Convolution2D has the key
\* 'parameters'.
C19_AbsorbedIntoPrecedingWeightedLayer ==
    Extracted =>
        /\ \A n \in LayersOfClass({"BatchNormLayer"}) :
             WeightedBefore(n) # {} =>
                LET j == Owner(n)
                    e == sim.extracted.layers[EntryOf(j)]
                    first == \A i \in LayersOfClass({"BatchNormLayer"}) :
                                ~(j < i /\ i < n)
                IN  /\ e.layer_type \in {"Dense", "Convolution2D"}
                    /\ "parameters" \in DOMAIN e
                    /\ e.parameters[1].fn = "absorb_bn"
                    /\ first =>
                         e.parameters
                           = absorb_bn(ParamValue(j, "W"), ParamValue(j, "b"),
                                       ParamValue(n, "gamma"),
                                       ParamValue(n, "beta"),
                                       ParamValue(n, "mean"),
                                       Applied("reciprocal", "",
                                           <<ParamValue(n, "inv_std")>>),
                                       ParamValue(n, "epsilon"))
        /\ \A p \in 1 .. Len(sim.extracted.layers) :
             "parameters" \in DOMAIN sim.extracted.layers[p] =>
                sim.extracted.layers[p].layer_type
                    \in {"Dense", "Convolution2D"}

-----------------------------------------------------------------------------
(* extract: inserted Flatten entries and the numbering of the entries.     *)

\* The number a sequence of decimal digits writes.
RECURSIVE DigitsValue(_)
DigitsValue(digits) ==
    IF digits = <<>> THEN 0
    ELSE 10 * DigitsValue(SubSeq(digits, 1, Len(digits) - 1))
         + digits[Len(digits)]

\* The output of the layer before source layer j has a higher rank than the
\* output of layer j.
HigherRankBefore(j) ==
    Len(PyAt(sim.model, j - 1).output_shape)
        > Len(PyAt(sim.model, j).output_shape)

\* The entry at position p (from 1) was inserted by extract.
Inserted(p) == sim.extracted.origin[p] = -1

\* Every Dense entry after a higher-rank layer has exactly one Flatten entry
\* before it, an inserted one; an entry is inserted only there, is a Flatten
\* entry, and stands next to no Flatten layer of the model.
FlattenWhereMissing ==
    LET layers == sim.extracted.layers
        origin == sim.extracted.origin
    IN  /\ \A p \in 1 .. Len(layers) :
             (layers[p].layer_type = "Dense" /\ HigherRankBefore(origin[p])) =>
                /\ p >= 2 /\ layers[p - 1].layer_type = "Flatten"
                /\ Inserted(p - 1)
                /\ p >= 3 => layers[p - 2].layer_type # "Flatten"
        /\ \A p \in 1 .. Len(layers) :
             Inserted(p) =>
                /\ layers[p].layer_type = "Flatten"
                /\ p < Len(layers) /\ layers[p + 1].layer_type = "Dense"
                /\ HigherRankBefore(origin[p + 1])
                /\ PyAt(sim.model, origin[p + 1] - 1).cls # "FlattenLayer"
                /\ p >= 2 => layers[p - 1].layer_type # "Flatten"

\* C20, as claimed: when extract has returned, Flatten entries are inserted
\* exactly where a Dense layer follows a higher-rank layer without a Flatten
\* layer, and the first two characters of every entry's name are digits
\* that write its position in the returned list (from 0).
C20_TwoDigitPrefixIsPosition ==
    Extracted =>
        /\ FlattenWhereMissing
        /\ \A p \in 1 .. Len(sim.extracted.layers) :
             LET digits == sim.extracted.layers[p].name.num_str
             IN  DigitsValue(SubSeq(digits, 1, 2)) = p - 1

\* C20, amended: when extract has returned, Flatten entries are inserted
\* exactly where a Dense layer follows a higher-rank layer without a Flatten
\* layer, and the digits that start every entry's name write its position
\* in the returned list (from 0): two digits for the positions below 100,
\* the decimal digits of the position from 100 on.
C20_FlattenInsertedAndPrefixIsPosition ==
    Extracted =>
        /\ FlattenWhereMissing
        /\ \A p \in 1 .. Len(sim.extracted.layers) :
             LET digits == sim.extracted.layers[p].name.num_str
             IN  /\ DigitsValue(digits) = p - 1
                 /\ Len(digits) = IF p - 1 < 100 THEN 2 ELSE Len(Str(p - 1))

\* extract has returned a list where a Flatten entry was inserted between a
\* convolution or pooling entry and a Dense entry, all numbered by position.
C20_Witness ==
    /\ Extracted
    /\ \E p \in 2 .. Len(sim.extracted.layers) - 1 :
         /\ Inserted(p)
         /\ sim.extracted.layers[p - 1].layer_type
              \in {"Convolution2D", "MaxPooling2D", "AveragePooling2D"}
         /\ sim.extracted.layers[p + 1].layer_type = "Dense"
         /\ sim.extracted.layers[p].name.num_str = <<0, p - 1>>
         /\ sim.extracted.layers[p + 1].name.num_str = <<0, p>>

-----------------------------------------------------------------------------
(* extract: the activation of the weighted layers.                         *)

\* The NonlinearityLayers that belong to source layer j: those after it
\* with no Dense or convolution layer between.
NonlinearitiesOf(j) ==
    {k \in LayersOfClass({"NonlinearityLayer"}) :
        /\ j < k
        /\ \A i \in LayersOfClass(WeightedClasses) : ~(j < i /\ i < k)}

\* The activations the model applies to the output of source layer j.
ActivationsOf(j) ==
    {activation_dict(PyAt(sim.model, j).nonlinearity)}
    \cup {activation_dict(PyAt(sim.model, k).nonlinearity) :
             k \in NonlinearitiesOf(j)}

\* C21.  As claimed: when extract has returned, every Dense and
\* Convolution2D entry has an 'activation', and it is the mapped
\* nonlinearity of the layer itself or of a NonlinearityLayer that belongs
\* to it, never the one of a NonlinearityLayer that comes after a later
\* Dense or convolution layer.
C21_ActivationOfTheSameLayer ==
    Extracted =>
        \A p \in 1 .. Len(sim.extracted.layers) :
            LET e == sim.extracted.layers[p]
            IN  e.layer_type \in {"Dense", "Convolution2D"} =>
                   /\ "activation" \in DOMAIN e
                   /\ e.activation \in ActivationsOf(sim.extracted.origin[p])

-----------------------------------------------------------------------------
(* The time the layer units are given.                                     *)

\* The layer units that expose a time attribute.
Clocked == Stateful

\* C22: in a call, the k-th iteration of the loop (index k-1) first gives
\* the time k * dt to the layers, so that the times given grow strictly;
\* every iteration that obtains its stimulus runs exactly one forward pass,
\* and that pass finds the time of its iteration in every layer unit that
\* exposes a time attribute; an iteration whose event source is exhausted
\* has given its time and runs no forward pass.
C22_TimePushedBeforeForwardPass ==
    sim.pc # "idle" =>
        /\ \A k \in 1 .. Len(hist.pushed) : hist.pushed[k] = k * dt
        /\ \A k \in 2 .. Len(hist.pushed) :
             hist.pushed[k - 1] < hist.pushed[k]
        /\ Len(hist.pushed) = sim.sim_step_int + 1
        /\ hist.num_forward = Passes /\ Len(hist.clock) = Passes
        /\ Passes = IF sim.err = "StopIteration" THEN Len(hist.pushed) - 1
                    ELSE Len(hist.pushed)
        /\ \A k \in 1 .. Passes : \A u \in Clocked :
             hist.clock[k][u] = hist.pushed[k]
        /\ (sim.pc = "loop" /\ Len(hist.pushed) > 0) =>
             \A u \in Clocked : snn.time[u] = hist.pushed[Len(hist.pushed)]

\* A call has run the forward pass of its last timestep, the third, at
\* time 3 * dt, after passes at dt and 2 * dt.
C22_Witness ==
    /\ Returned /\ T = MaxTimesteps /\ Passes = MaxTimesteps
    /\ hist.pushed = [k \in 1 .. MaxTimesteps |-> k * dt]
    /\ \A u \in Clocked : hist.clock[Passes][u] = MaxTimesteps * dt
    /\ \A u \in Clocked : hist.clock[1][u] = dt

-----------------------------------------------------------------------------
(* Operations charged for the input.                                       *)

\* The input is Poisson or event based.
SpikingInput == config.poisson_input \/ config.dataset_format = "aedat"

\* Forward pass k of the call was followed by the recording of its
\* iteration: the iteration did not raise.
Recorded(k) == ~(sim.pc = "error" /\ k = Passes)

\* C23: for every iteration of a call that ran its forward pass and did not
\* raise (pass k, timestep k-1): with Poisson or event input, if the
\* synaptic-operation counter is allocated, exactly the cost of the
\* stimulus of that iteration (its nonzero entries times the fan-out of the
\* input) is added to the counter at timestep k-1, and nothing is added
\* for the input to the neuron-operation counter; with rate-coded input, if
\* the neuron-operation counter is allocated, 2 * fanin[1] *
\* num_neurons[1] is added per sample at timestep 0 in the first iteration,
\* and nothing is added for the input in a later iteration; a counter
\* that is not allocated gets nothing.
C23_InputOperationsCharged ==
    sim.pc # "idle" =>
        /\ Len(hist.charge) = Passes
        /\ \A k \in 1 .. Passes :
             Recorded(k) =>
                hist.charge[k] =
                    IF SpikingInput
                    THEN IF config.log_synaptic_operations
                         THEN <<[buffer |-> "synaptic_operations_b_t",
                                 slot |-> k - 1,
                                 amount |-> [b \in Batch(config) |->
                                     fanout[0] * Cardinality(
                                         {n \in Inputs :
                                             hist.stim[k][b][n] # 0})]]>>
                         ELSE <<>>
                    ELSE IF config.log_neuron_operations /\ k = 1
                         THEN <<[buffer |-> "neuron_operations_b_t",
                                 slot |-> 0,
                                 amount |-> [b \in Batch(config) |->
                                     2 * fanin[1] * num_neurons[1]]]>>
                         ELSE <<>>

\* A rate-coded call of two timesteps has returned: the neuron-operation
\* counter was charged at timestep 0 and not at timestep 1.
C23_Witness ==
    /\ Returned /\ ~SpikingInput /\ Passes = 2
    /\ config.log_neuron_operations
    /\ Len(hist.charge[1]) = 1 /\ hist.charge[1][1].slot = 0
    /\ hist.charge[1][1].amount[0] = 2 * NumInputs
    /\ hist.charge[2] = <<>>

-----------------------------------------------------------------------------
(* The input spike count.                                                  *)

\* A call is about to run its first iteration.
AtLoopStart == sim.pc = "loop" /\ sim.sim_step_int = -1

\* The step is an iteration in which get_poisson_frame_batch sampled.
SampledStep ==
    /\ config.poisson_input
    /\ calls' = calls
    /\ Len(hist'.branch) = Len(hist.branch) + 1
    /\ hist'.branch[Len(hist'.branch)] = "sample"

\* C24: the input spike count is zero when a call, the first or a later
\* one, is about to run its first iteration; no step within a call lowers
\* it; a step that changes it is the start of a call, which sets it to
\* zero, or an iteration in which get_poisson_frame_batch sampled, which
\* raises it; without Poisson input it is zero throughout.
C24_InputSpikeCountResetAndMonotone ==
    /\ [](AtLoopStart => input_spikecount = 0)
    /\ [](~config.poisson_input => input_spikecount = 0)
    /\ [][calls' = calls => input_spikecount' >= input_spikecount]_vars
    /\ [][input_spikecount' # input_spikecount =>
             \/ calls' = calls + 1 /\ input_spikecount' = 0
             \/ SampledStep /\ input_spikecount' > input_spikecount]_vars

\* A second call with Poisson input found a count above zero, asked for its
\* first stimulus at a count of zero and has raised the count again.
C24_Witness ==
    /\ calls = 2 /\ Returned /\ config.poisson_input
    /\ hist.start.input_spikecount > 0
    /\ hist.before[1] = 0
    /\ input_spikecount > 0

-----------------------------------------------------------------------------
(* The slots of the statistics buffers.                                    *)

\* The writes the call has made to statistics buffers, as positions of the
\* log, and the timesteps a write covers.
Writes == {k \in 1 .. Len(hist.access) : hist.access[k].op = "write"}

SlotsOf(a) == IF a.slot = WholeAxis THEN Steps(config) ELSE {a.slot}

\* Every write is to a slot of a timestep that was executed, and no
\* (buffer, layer index, timestep) is written twice.
WriteOncePerSlot ==
    /\ \A k \in Writes : SlotsOf(hist.access[k]) \subseteq 0 .. Passes - 1
    /\ \A k1, k2 \in Writes :
          (/\ k1 # k2
           /\ hist.access[k1].buffer = hist.access[k2].buffer
           /\ hist.access[k1].layer = hist.access[k2].layer)
          => SlotsOf(hist.access[k1]) \cap SlotsOf(hist.access[k2]) = {}

\* The accesses a step appends to the log are to the slot of the timestep
\* the step executes.
WritesOwnSlot ==
    \A k \in Len(hist.access) + 1 .. Len(hist'.access) :
        SlotsOf(hist'.access[k]) = {sim'.sim_step_int}

\* C25: during one simulate run each slot (buffer, layer index, timestep)
\* is written at most once, only by the loop iteration of that timestep,
\* and the slot of a timestep that was not executed is never written.
C25_WriteOncePerSlotInEveryMode ==
    /\ [](WriteOncePerSlot)
    /\ [][WritesOwnSlot]_vars

=============================================================================
